---- MODULE Spec2Model ----
(***************************************************************************)
(* Model of the OTA booking extractor: parser.py (text normalisation, date *)
(* helpers, the Expedia and Agoda extractors, schema normalisation, the    *)
(* two renderers, process_pdf) and app.py (the batch worker).              *)
(*                                                                         *)
(* Text is kept as TLA+ strings in the state and as tuples of one-         *)
(* character strings inside the operators.  Python's regular expressions   *)
(* are modelled by a backtracking matcher (Match) over pattern trees that  *)
(* returns every way a pattern matches at a position, in Python's order    *)
(* of preference; its first element is the match Python reports.           *)
(***************************************************************************)
EXTENDS Integers, Sequences, FiniteSets, TLC

VARIABLES
    text,       \* str: the text handed to the function under test; a document's full_text
    parts,      \* the pieces text was put together from (process_pdf: pdf.pages' texts)
    ret,        \* str: what a string function returned for text
    ret2,       \* str: what the function returned when applied to ret
    data,       \* dict: the map handed to ordered_output
    result,     \* OrderedDict: ordered_output(data); process_pdf: parser.parse()
    result2,    \* OrderedDict: ordered_output(result)
    source,     \* process_pdf: the parser chosen, "Expedia", "Agoda" or "" (none)
    error,      \* process_pdf: the class of the exception it raised, "" when it returned
    txt_file,   \* process_pdf: what was written to <base>_extracted.txt, "" when not written
    html_file,  \* process_pdf: what was written to <base>_report.html, "" when not written
    phase,      \* position of the scenario: "compose", then the steps of the operation
    file_list,  \* PdfExtractorApp.file_list: the paths chosen, in order
    btn_start,  \* the Start button's state, "normal" or "disabled"
    log_queue,  \* PdfExtractorApp.log_queue: the messages put and not yet taken
    log_text,   \* the lines the log box shows, in order
    thread,     \* process_files_thread: "none", "started", "loop" (in its for) or "ended"
    index,      \* process_files_thread: how many items its for loop has taken
    total_files, \* process_files_thread: len(file_list) when it began
    written     \* the files process_pdf wrote its two outputs for

vars == <<text, parts, ret, ret2, data, result, result2, source, error, txt_file, html_file,
          phase, file_list, btn_start, log_queue, log_text, thread, index, total_files,
          written>>

fnVars  == <<ret, ret2>>
mapVars == <<data, result, result2>>
pdfVars == <<source, error, txt_file, html_file>>
appVars == <<file_list, btn_start, log_queue, log_text, thread, index, total_files, written>>

-----------------------------------------------------------------------------
(* Characters and strings *)

Chars(s) == [i \in 1..Len(s) |-> SubSeq(s, i, i)] \o <<>>

ToSet(seq) == {seq[i] : i \in DOMAIN seq}

\* "".join(cs), halving so that the depth stays logarithmic
RECURSIVE Join(_)
Join(cs) ==
    IF cs = <<>> THEN ""
    ELSE IF Len(cs) = 1 THEN cs[1]
    ELSE Join(SubSeq(cs, 1, Len(cs) \div 2)) \o Join(SubSeq(cs, Len(cs) \div 2 + 1, Len(cs)))

\* the sequences of ss one after the other
RECURSIVE Flatten(_)
Flatten(ss) ==
    IF ss = <<>> THEN <<>>
    ELSE IF Len(ss) = 1 THEN ss[1]
    ELSE Flatten(SubSeq(ss, 1, Len(ss) \div 2))
         \o Flatten(SubSeq(ss, Len(ss) \div 2 + 1, Len(ss)))

\* the sequence f as a tuple, its members computed once
Eager(f) == f \o <<>>

Least(S)    == CHOOSE x \in S : \A y \in S : x <= y
Greatest(S) == CHOOSE x \in S : \A y \in S : x >= y

\* the non-breaking space U+00A0 ("\xa0" in the source)
NBSP == " "

UpperSeq == Chars("ABCDEFGHIJKLMNOPQRSTUVWXYZ")
LowerSeq == Chars("abcdefghijklmnopqrstuvwxyz")
DigitSeq == Chars("0123456789")

UpperSet == ToSet(UpperSeq)
LowerSet == ToSet(LowerSeq)
DigitSet == ToSet(DigitSeq)
AlphaSet == UpperSet \cup LowerSet

LowerMap == [c \in UpperSet |-> LowerSeq[CHOOSE i \in 1..26 : UpperSeq[i] = c]]
UpperMap == [c \in LowerSet |-> UpperSeq[CHOOSE i \in 1..26 : LowerSeq[i] = c]]

\* str.lower() and str.upper() on one character
LowerChar(c) == IF c \in UpperSet THEN LowerMap[c] ELSE c
UpperChar(c) == IF c \in LowerSet THEN UpperMap[c] ELSE c

\* str.lower()
lower(cs) == [i \in 1..Len(cs) |-> LowerChar(cs[i])]

\* what str.strip() and \s take for whitespace
WhiteSet == {" ", "\t", "\n", "\r", "\f", NBSP}

\* \w
WordSet == AlphaSet \cup DigitSet \cup {"_", "á"}

-----------------------------------------------------------------------------
(* Regular expressions (module re).  A pattern is a tree:                  *)
(*   [op |-> "set", set, neg]      one character in (neg: not in) set      *)
(*   [op |-> "lit", cs, ic]        the characters cs (ic: re.I)            *)
(*   [op |-> "seq", args]          concatenation                           *)
(*   [op |-> "alt", args]          a|b|...                                 *)
(*   [op |-> "rep", arg, min, max, greedy]   {min,max}, max = -1 unbounded *)
(*   [op |-> "grp", n, arg]        capturing group n                       *)
(*   [op |-> "wb"]                 \b                                      *)
(*   [op |-> "nlb", set], [op |-> "nla", set]   (?<![set]) and (?![set])   *)

In(S)         == [op |-> "set", set |-> S, neg |-> FALSE]
NotIn(S)      == [op |-> "set", set |-> S, neg |-> TRUE]
Lit(s)        == [op |-> "lit", cs |-> Chars(s), ic |-> FALSE]
LitI(s)       == [op |-> "lit", cs |-> lower(Chars(s)), ic |-> TRUE]
Cat(args)     == [op |-> "seq", args |-> args]
Alt(args)     == [op |-> "alt", args |-> args]
Rep(r, lo, hi) == [op |-> "rep", arg |-> r, min |-> lo, max |-> hi, greedy |-> TRUE]
Lazy(r, lo, hi) == [op |-> "rep", arg |-> r, min |-> lo, max |-> hi, greedy |-> FALSE]
Star(r)       == Rep(r, 0, -1)
Plus(r)       == Rep(r, 1, -1)
Opt(r)        == Rep(r, 0, 1)
Grp(n, r)     == [op |-> "grp", n |-> n, arg |-> r]
WordB         == [op |-> "wb"]
NotBehind(S)  == [op |-> "nlb", set |-> S]
NotAhead(S)   == [op |-> "nla", set |-> S]

Space == In(WhiteSet)                   \* \s
Digit == In(DigitSet)                   \* \d
Dot   == NotIn({"\n"})                  \* . without re.S
AnyCh == NotIn({})                      \* . under re.S

\* the groups of a match: group n is <<start, end>>, <<0, 0>> when it did not take part
NoGroups == [n \in 1..4 |-> <<0, 0>>]

IsWordAt(t, i) == i >= 1 /\ i <= Len(t) /\ t[i] \in WordSet

LitAt(r, t, i) ==
    /\ i + Len(r.cs) - 1 <= Len(t)
    /\ \A k \in 1..Len(r.cs) :
          IF r.ic THEN LowerChar(t[i + k - 1]) = r.cs[k] ELSE t[i + k - 1] = r.cs[k]

\* a repetition of a character class: the run of members from i on, cut at max,
\* gives one match per length from the longest down (lazy: from the shortest up)
MatchRun(r, t, i, g) ==
    LET stop == CHOOSE j \in i..Len(t) + 1 :
                    /\ j = Len(t) + 1 \/ ((t[j] \in r.arg.set) = r.arg.neg)
                    /\ \A k \in i..j - 1 : (t[k] \in r.arg.set) # r.arg.neg
        run  == IF r.max >= 0 /\ stop - i > r.max THEN r.max ELSE stop - i
    IN  IF run < r.min THEN <<>>
        ELSE [k \in 1..run - r.min + 1 |->
                [e |-> IF r.greedy THEN i + run - (k - 1) ELSE i + r.min + (k - 1), g |-> g]]

RECURSIVE Match(_, _, _, _), MatchSeq(_, _, _, _, _), MatchAlt(_, _, _, _, _),
          MatchRep(_, _, _, _, _)

\* every way pattern r matches t from position i, preferred first: <<[e, g], ...>>
Match(r, t, i, g) ==
    CASE r.op = "set" ->
           IF i <= Len(t) /\ ((t[i] \in r.set) # r.neg)
           THEN <<[e |-> i + 1, g |-> g]>> ELSE <<>>
      [] r.op = "lit" ->
           IF LitAt(r, t, i) THEN <<[e |-> i + Len(r.cs), g |-> g]>> ELSE <<>>
      [] r.op = "seq" -> MatchSeq(r.args, 1, t, i, g)
      [] r.op = "alt" -> MatchAlt(r.args, 1, t, i, g)
      [] r.op = "rep" ->
           IF r.arg.op = "set" THEN MatchRun(r, t, i, g) ELSE MatchRep(r, 0, t, i, g)
      [] r.op = "grp" ->
           LET ms == Match(r.arg, t, i, g)
           IN  Eager([k \in 1..Len(ms) |->
                        [e |-> ms[k].e, g |-> [ms[k].g EXCEPT ![r.n] = <<i, ms[k].e>>]]])
      [] r.op = "wb" ->
           IF IsWordAt(t, i - 1) # IsWordAt(t, i) THEN <<[e |-> i, g |-> g]>> ELSE <<>>
      [] r.op = "nlb" ->
           IF i >= 2 /\ t[i - 1] \in r.set THEN <<>> ELSE <<[e |-> i, g |-> g]>>
      [] r.op = "nla" ->
           IF i <= Len(t) /\ t[i] \in r.set THEN <<>> ELSE <<[e |-> i, g |-> g]>>

\* args[k..]: the rest args[k+1..] after each way args[k] matched
MatchSeq(args, k, t, i, g) ==
    IF k > Len(args) THEN <<[e |-> i, g |-> g]>>
    ELSE IF k = Len(args) THEN Match(args[k], t, i, g)
    ELSE LET ms == Match(args[k], t, i, g)
         IN  Flatten(Eager([j \in 1..Len(ms) |->
                                MatchSeq(args, k + 1, t, ms[j].e, ms[j].g)]))

MatchAlt(args, k, t, i, g) ==
    IF k > Len(args) THEN <<>>
    ELSE Match(args[k], t, i, g) \o MatchAlt(args, k + 1, t, i, g)

\* the repetitions after the n-th: one more after each way the next one matched
\* (an empty one ends it), or none
MatchRep(r, n, t, i, g) ==
    LET more == IF r.max >= 0 /\ n >= r.max THEN <<>>
                ELSE LET ms == Match(r.arg, t, i, g)
                         fw == SelectSeq(ms, LAMBDA m : m.e > i)
                     IN  Flatten(Eager([j \in 1..Len(fw) |->
                                           MatchRep(r, n + 1, t, fw[j].e, fw[j].g)]))
        stop == IF n >= r.min THEN <<[e |-> i, g |-> g]>> ELSE <<>>
    IN  IF r.greedy THEN more \o stop ELSE stop \o more

NoMatch == [found |-> FALSE, s |-> 0, e |-> 0, g |-> NoGroups]

\* the match object for the preferred one of the ways ms a pattern matched from s
Found(s, ms) == [found |-> TRUE, s |-> s, e |-> ms[1].e, g |-> ms[1].g]

\* the match at the least of the positions hits where r matches, if there is one
FirstHit(r, t, hits) ==
    IF hits = {} THEN NoMatch ELSE Found(Least(hits), Match(r, t, Least(hits), NoGroups))

\* the scan of re.search from position i on
SearchFrom(r, t, i) == FirstHit(r, t, {j \in i..Len(t) + 1 : Match(r, t, j, NoGroups) # <<>>})

\* re.search(r, t): the leftmost match, the preferred one at that position
Search(r, t) == SearchFrom(r, t, 1)

\* re.match(r, t): a match at the start of t
MatchStart(r, t) == FirstHit(r, t, {j \in {1} : Match(r, t, j, NoGroups) # <<>>})

\* m.group(n) as characters
Group(m, t, n) == SubSeq(t, m.g[n][1], m.g[n][2] - 1)

\* re.sub(r, repl, t) from position i on, for a pattern that matches no empty string
RECURSIVE SubFrom(_, _, _, _), SubAt(_, _, _, _, _)
SubFrom(r, repl, t, i) ==
    IF i > Len(t) THEN <<>> ELSE SubAt(r, repl, t, i, SearchFrom(r, t, i))

\* the text from i on with the next match m replaced, and so on after it
SubAt(r, repl, t, i, m) ==
    IF ~m.found THEN SubSeq(t, i, Len(t))
    ELSE SubSeq(t, i, m.s - 1) \o repl \o SubFrom(r, repl, t, m.e)

Sub(r, repl, t) == SubFrom(r, repl, t, 1)

-----------------------------------------------------------------------------
(* str methods *)

\* str.replace(old, new) for a one-character old
Replace(t, old, new) == [i \in 1..Len(t) |-> IF t[i] = old THEN new ELSE t[i]]

\* the positions of t whose character is not in S
Kept(t, S) == {i \in 1..Len(t) : t[i] \notin S}

\* str.lstrip(S), str.rstrip(S)
LStrip(t, S) == IF Kept(t, S) = {} THEN <<>> ELSE SubSeq(t, Least(Kept(t, S)), Len(t))
RStrip(t, S) == IF Kept(t, S) = {} THEN <<>> ELSE SubSeq(t, 1, Greatest(Kept(t, S)))

\* str.strip()
Strip(t) == RStrip(LStrip(t, WhiteSet), WhiteSet)

-----------------------------------------------------------------------------
(* norm_text *)

SpacesTabs == Plus(In({" ", "\t"}))         \* [ \t]+
Newlines   == Rep(In({"\n"}), 2, -1)        \* \n{2,}

\* a plausible slip: the newline runs are left alone
norm_text_keeps_newlines(t) ==
    IF t = <<>> THEN <<>>
    ELSE Strip(Sub(SpacesTabs, <<" ">>, Replace(t, NBSP, " ")))

norm_text(t) ==
    IF t = <<>> THEN <<>>
    ELSE LET t1 == Replace(t, NBSP, " ")
             t2 == Sub(SpacesTabs, <<" ">>, t1)
             t3 == Sub(Newlines, <<"\n">>, t2)
         IN  Strip(t3)

-----------------------------------------------------------------------------
(* Python values.  A value is [kind, s, items]: a str (s its text), a bool *)
(* (s is "True" or "False"), None, a dict (items its <<key, value>> pairs  *)
(* in insertion order), or a raised exception (s its class).               *)

Str(s)      == [kind |-> "str", s |-> s, items |-> <<>>]
Bool(b)     == [kind |-> "bool", s |-> IF b THEN "True" ELSE "False", items |-> <<>>]
PyNone      == [kind |-> "None", s |-> "None", items |-> <<>>]
Dict(items) == [kind |-> "dict", s |-> "", items |-> items]
Raised(cls) == [kind |-> "raise", s |-> cls, items |-> <<>>]

\* bool(v)
Truthy(v) ==
    CASE v.kind = "str"  -> v.s # ""
      [] v.kind = "bool" -> v.s = "True"
      [] v.kind = "None" -> FALSE
      [] v.kind = "dict" -> v.items # <<>>

\* key in d
HasKey(items, k) == \E i \in 1..Len(items) : items[i][1] = k

\* d.get(k, default)
Get(items, k, default) ==
    IF HasKey(items, k)
    THEN items[CHOOSE i \in 1..Len(items) : items[i][1] = k][2]
    ELSE default

\* d[k] = v
SetKey(items, k, v) ==
    IF HasKey(items, k)
    THEN [i \in 1..Len(items) |-> IF items[i][1] = k THEN <<k, v>> ELSE items[i]]
    ELSE Append(items, <<k, v>>)

\* list(d)
KeysOf(items) == [i \in 1..Len(items) |-> items[i][1]]

-----------------------------------------------------------------------------
(* The schema and ordered_output *)

FIELD_ORDER ==
    << "Status booking Reservation", "Customer First Name", "Customer Last Name",
       "Email Customer", "BookingID", "Has Prepaid", "Booked on", "Check in",
       "Check out", "Special Request", "Room Type Code", "No. of room",
       "Occupancy Adult", "Occupancy Childrent", "Daily Rate", "Total Booking",
       "Amount to Charge Expedia", "Billing Details:" >>

BILLING_ORDER == << "Card Number", "Activation Date", "Expiration Date", "Validation Code" >>

\* the billing sub-map ordered_output builds from the value sub found under the key
BillingOf(sub) ==
    [j \in 1..Len(BILLING_ORDER) |->
        <<BILLING_ORDER[j], Get(sub.items, BILLING_ORDER[j], Str(""))>>]

\* a plausible slip: only the keys the input carries are copied
ordered_output_skips_missing(d) ==
    LET sub0 == Get(d, "Billing Details:", Dict(<<>>))
        sub  == IF Truthy(sub0) THEN sub0 ELSE Dict(<<>>)
        all  == [i \in 1..Len(FIELD_ORDER) |->
                   <<FIELD_ORDER[i],
                     IF FIELD_ORDER[i] = "Billing Details:" THEN Dict(BillingOf(sub))
                     ELSE Get(d, FIELD_ORDER[i], Str(""))>>]
    IN  IF sub.kind # "dict" THEN Raised("AttributeError")
        ELSE Dict(SelectSeq(all, LAMBDA kv : HasKey(d, kv[1])))

\* a plausible slip: the billing sub-map is stored under the key without its colon
ordered_output_renames_billing(d) ==
    LET sub0 == Get(d, "Billing Details:", Dict(<<>>))
        sub  == IF Truthy(sub0) THEN sub0 ELSE Dict(<<>>)
    IN  IF sub.kind # "dict" THEN Raised("AttributeError")
        ELSE Dict([i \in 1..Len(FIELD_ORDER) |->
                     IF FIELD_ORDER[i] = "Billing Details:"
                     THEN <<"Billing Details", Dict(BillingOf(sub))>>
                     ELSE <<FIELD_ORDER[i],
                            Get(d, FIELD_ORDER[i],
                                IF FIELD_ORDER[i] = "Has Prepaid" THEN Bool(FALSE) ELSE Str(""))>>])

\* the body of ordered_output's loop, the value it stores under FIELD_ORDER[i]
OrderedItem(d, sub, i) ==
    IF FIELD_ORDER[i] = "Billing Details:"
    THEN <<FIELD_ORDER[i], Dict(BillingOf(sub))>>
    ELSE <<FIELD_ORDER[i],
           Get(d, FIELD_ORDER[i],
               IF FIELD_ORDER[i] = "Has Prepaid" THEN Bool(FALSE) ELSE Str(""))>>

\* ordered_output(data); sub.get on a truthy value that is no dict raises
ordered_output(d) ==
    LET sub0 == Get(d, "Billing Details:", Dict(<<>>))
        sub  == IF Truthy(sub0) THEN sub0 ELSE Dict(<<>>)
    IN  IF sub.kind # "dict" THEN Raised("AttributeError")
        ELSE Dict([i \in 1..Len(FIELD_ORDER) |-> OrderedItem(d, sub, i)])

-----------------------------------------------------------------------------
(* Numbers in text: int(), f"{n}", f"{n:02d}" *)

DigitVal == [c \in DigitSet |-> (CHOOSE i \in 1..10 : DigitSeq[i] = c) - 1]

RECURSIVE DigitsValue(_)
DigitsValue(cs) ==
    IF cs = <<>> THEN 0 ELSE 10 * DigitsValue(SubSeq(cs, 1, Len(cs) - 1)) + DigitVal[cs[Len(cs)]]

\* int(s) for the sign neg and the characters body that follow it
IntOf(neg, body) ==
    IF body # <<>> /\ \A k \in 1..Len(body) : body[k] \in DigitSet
    THEN [ok |-> TRUE, v |-> IF neg THEN 0 - DigitsValue(body) ELSE DigitsValue(body)]
    ELSE [ok |-> FALSE, v |-> 0]

\* int(s) for the stripped characters s
StrippedInt(s) ==
    IntOf(s # <<>> /\ s[1] = "-", IF s # <<>> /\ s[1] \in {"+", "-"} THEN Tail(s) ELSE s)

\* int(s): [ok, v]; ok is FALSE where int raises ValueError
PyInt(cs) == StrippedInt(Strip(cs))

\* f"{n}"
Fmt(n) == ToString(n)

\* f"{n:02d}"
Fmt02(n) == IF n >= 0 /\ n <= 9 THEN "0" \o ToString(n) ELSE ToString(n)

-----------------------------------------------------------------------------
(* Dates: _MONTH_MAP, parse_month_day_year, mdy_to_mmddyyyy,               *)
(* parse_vi_sent_datetime                                                  *)

MONTH_MAP ==
    [ jan |-> 1, january |-> 1, feb |-> 2, february |-> 2, mar |-> 3, march |-> 3,
      apr |-> 4, april |-> 4, may |-> 5, jun |-> 6, june |-> 6, jul |-> 7, july |-> 7,
      aug |-> 8, august |-> 8, sep |-> 9, september |-> 9, oct |-> 10, october |-> 10,
      nov |-> 11, november |-> 11, dec |-> 12, december |-> 12 ]

\* a plausible slip: the try/except around the lookup and the int() calls is missing
parse_month_day_year_unguarded(month, day, year) ==
    LET name == Join(lower(Strip(Chars(month))))
        dd   == PyInt(Chars(day))
        yyyy == PyInt(Chars(year))
    IN  IF name \notin DOMAIN MONTH_MAP THEN Raised("KeyError")
        ELSE IF ~dd.ok \/ ~yyyy.ok THEN Raised("ValueError")
        ELSE Str(Fmt02(MONTH_MAP[name]) \o "/" \o Fmt02(dd.v) \o "/" \o Fmt(yyyy.v))

\* the try block of parse_month_day_year on the looked-up name and the two int() results
MonthDayYear(name, dd, yyyy, month, day, year) ==
    IF name \in DOMAIN MONTH_MAP /\ dd.ok /\ yyyy.ok
    THEN Str(Fmt02(MONTH_MAP[name]) \o "/" \o Fmt02(dd.v) \o "/" \o Fmt(yyyy.v))
    ELSE Str(month \o " " \o day \o ", " \o year)

\* parse_month_day_year(month, day, year); the arguments and the result are str
parse_month_day_year(month, day, year) ==
    MonthDayYear(Join(lower(Strip(Chars(month)))), PyInt(Chars(day)), PyInt(Chars(year)),
                 month, day, year)

\* datetime.strptime: the month names of %b and of %B, longest first as _strptime sorts them
AbbrNames == <<"jan", "feb", "mar", "apr", "may", "jun", "jul", "aug", "sep", "oct", "nov", "dec">>
FullNames == <<"september", "february", "november", "december", "january", "october",
               "august", "march", "april", "june", "july", "may">>

NamesRE(names) == Alt([i \in 1..Len(names) |-> LitI(names[i])])

\* %d as _strptime compiles it: 3[0-1]|[1-2]\d|0[1-9]|[1-9]| [1-9]
DayRE ==
    Alt(<< Cat(<<Lit("3"), In({"0", "1"})>>),
           Cat(<<In({"1", "2"}), Digit>>),
           Cat(<<Lit("0"), In(DigitSet \ {"0"})>>),
           In(DigitSet \ {"0"}),
           Cat(<<Lit(" "), In(DigitSet \ {"0"})>>) >>)

\* "%b %d, %Y" and "%B %d, %Y": blanks of the format become \s+, %Y is \d\d\d\d
StrptimeRE(names) ==
    Cat(<< Grp(1, NamesRE(names)), Plus(Space), Grp(2, DayRE), Lit(","), Plus(Space),
           Grp(3, Rep(Digit, 4, 4)) >>)

IsLeap(y) == y % 4 = 0 /\ (y % 100 # 0 \/ y % 400 = 0)

\* calendar.mdays with February of a leap year
DaysIn(y, m) ==
    IF m = 2 THEN (IF IsLeap(y) THEN 29 ELSE 28)
    ELSE IF m \in {4, 6, 9, 11} THEN 30 ELSE 31

\* strftime("%m/%d/%Y") of the date strptime builds, or the ValueError of a day or
\* year no date has.  %Y prints the year unpadded (glibc).
CalendarDate(mm, dd, yy) ==
    IF yy < 1 \/ dd > DaysIn(yy, mm) THEN Raised("ValueError")
    ELSE Str(Fmt02(mm) \o "/" \o Fmt02(dd) \o "/" \o Fmt(yy))

\* strptime on its regex match m: no match and unconverted data raise ValueError
StrptimeMatch(m, t) ==
    IF ~m.found \/ m.e # Len(t) + 1 THEN Raised("ValueError")
    ELSE CalendarDate(MONTH_MAP[Join(lower(Group(m, t, 1)))],
                      DigitsValue(Strip(Group(m, t, 2))), DigitsValue(Group(m, t, 3)))

\* datetime.strptime(s, fmt).strftime("%m/%d/%Y"), or the ValueError strptime raises
StrptimeFmt(t, names) == StrptimeMatch(MatchStart(StrptimeRE(names), t), t)

\* ([A-Za-z]+)\s+(\d{1,2}),\s*(\d{4})
ManualDateRE ==
    Cat(<< Grp(1, Plus(In(AlphaSet))), Plus(Space), Grp(2, Rep(Digit, 1, 2)), Lit(","),
           Star(Space), Grp(3, Rep(Digit, 4, 4)) >>)

\* the manual fallback of mdy_to_mmddyyyy on its match m
MdyManual(m, t) ==
    IF m.found
    THEN parse_month_day_year(Join(Group(m, t, 1)), Join(Group(m, t, 2)), Join(Group(m, t, 3)))
    ELSE Str(Join(t))

\* the loop over the two formats, then the fallback
MdyFormats(abbr, full, t) ==
    IF abbr.kind # "raise" THEN abbr
    ELSE IF full.kind # "raise" THEN full
    ELSE MdyManual(MatchStart(ManualDateRE, t), t)

\* mdy_to_mmddyyyy on the stripped text
MdyText(t) == MdyFormats(StrptimeFmt(t, AbbrNames), StrptimeFmt(t, FullNames), t)

\* mdy_to_mmddyyyy(date_str)
mdy_to_mmddyyyy(date_str) ==
    IF date_str = "" THEN Str("")
    ELSE MdyText(Replace(Strip(Chars(date_str)), NBSP, " "))

\* \b(\d{1,2})/(\d{1,2})/(\d{4})\b
NumericDateRE ==
    Cat(<< WordB, Grp(1, Rep(Digit, 1, 2)), Lit("/"), Grp(2, Rep(Digit, 1, 2)), Lit("/"),
           Grp(3, Rep(Digit, 4, 4)), WordB >>)

\* (\d{1,2})\s+th[aá]ng\s+(\d{1,2}),\s*(\d{4}) under re.I
ThangDateRE ==
    Cat(<< Grp(1, Rep(Digit, 1, 2)), Plus(Space), LitI("th"), In({"a", "A", "á", "Á"}),
           LitI("ng"), Plus(Space), Grp(2, Rep(Digit, 1, 2)), Lit(","), Star(Space),
           Grp(3, Rep(Digit, 4, 4)) >>)

\* a plausible slip: the groups are printed in the order they were read
SwappedDate_unswapped(m, t) ==
    Fmt02(DigitsValue(Group(m, t, 1))) \o "/" \o Fmt02(DigitsValue(Group(m, t, 2))) \o "/"
    \o Fmt(DigitsValue(Group(m, t, 3)))

\* the f-string both branches of parse_vi_sent_datetime return for a match m
SwappedDate(m, t) ==
    Fmt02(DigitsValue(Group(m, t, 2))) \o "/" \o Fmt02(DigitsValue(Group(m, t, 1))) \o "/"
    \o Fmt(DigitsValue(Group(m, t, 3)))

\* the two searches of parse_vi_sent_datetime, the numeric one first
ViSentDate(m1, m2, t) ==
    IF m1.found THEN SwappedDate(m1, t)
    ELSE IF m2.found THEN SwappedDate(m2, t)
    ELSE ""

ViSentText(t) == ViSentDate(Search(NumericDateRE, t), Search(ThangDateRE, t), t)

\* parse_vi_sent_datetime(text)
parse_vi_sent_datetime(s) == IF s = "" THEN "" ELSE ViSentText(Chars(s))

-----------------------------------------------------------------------------
(* More str methods and the pieces the extractors share *)

\* the n-th member of a set of numbers, counted from the least
Nth(S, n) == CHOOSE x \in S : Cardinality({y \in S : y < x}) = n - 1

\* str.split(): the whitespace-separated tokens, from each first to each last character
Split(t) ==
    LET firsts == {i \in 1..Len(t) : t[i] \notin WhiteSet /\ (i = 1 \/ t[i - 1] \in WhiteSet)}
        lasts  == {i \in 1..Len(t) :
                      t[i] \notin WhiteSet /\ (i = Len(t) \/ t[i + 1] \in WhiteSet)}
    IN  Eager([n \in 1..Cardinality(firsts) |-> SubSeq(t, Nth(firsts, n), Nth(lasts, n))])

\* str.isdigit()
IsDigit(t) == t # <<>> /\ \A k \in 1..Len(t) : t[k] \in DigitSet

\* str.title(): a letter after a letter is lowered, any other letter raised
Title(t) ==
    [i \in 1..Len(t) |->
        IF i > 1 /\ t[i - 1] \in AlphaSet THEN LowerChar(t[i]) ELSE UpperChar(t[i])]

\* " ".join(tokens)
RECURSIVE JoinWith(_, _)
JoinWith(toks, sep) ==
    IF toks = <<>> THEN <<>>
    ELSE IF Len(toks) = 1 THEN toks[1]
    ELSE toks[1] \o sep \o JoinWith(Tail(toks), sep)

\* CURRENCY_PATTERN; the extractors use it under re.I
CURRENCIES == <<"VND", "USD", "EUR", "JPY", "THB", "SGD", "AUD", "GBP", "KRW", "CNY">>
CurrencyRE(n) == Grp(n, Alt([i \in 1..Len(CURRENCIES) |-> LitI(CURRENCIES[i])]))

AmountChars == In(DigitSet \cup {",", "."})                          \* [\d,.]
NotSpace    == NotIn(WhiteSet)                                       \* [^\s]
LongDateRE  ==                                                       \* [A-Za-z]{3,9}\s+\d{1,2},\s*\d{4}
    Cat(<< Rep(In(AlphaSet), 3, 9), Plus(Space), Rep(Digit, 1, 2), Lit(","), Star(Space),
           Rep(Digit, 4, 4) >>)
GroupedRE   ==                                                       \* \d{1,3}(?:,\d{3})+
    Cat(<< Rep(Digit, 1, 3), Plus(Cat(<<Lit(","), Rep(Digit, 3, 3)>>)) >>)
FractionRE  == Opt(Cat(<<Lit("."), Plus(Digit)>>))                   \* (?:\.\d+)?

\* m.group(n) as a str, "" for a pattern that did not match
GroupStr(m, t, n) == IF m.found THEN Join(Group(m, t, n)) ELSE ""

\* data[k] = v when cond holds
PutIf(d, cond, k, v) == IF cond THEN SetKey(d, k, v) ELSE d

\* if m: data[k] = m.group(n)
PutGroup(d, m, k, t, n) == PutIf(d, m.found, k, Str(GroupStr(m, t, n)))

\* if s: data[k] = s
PutText(d, k, s) == PutIf(d, s # "", k, Str(s))

\* data.setdefault(k, v)
SetDefault(d, k, v) == IF HasKey(d, k) THEN d ELSE SetKey(d, k, v)

\* the exception raised while a map was being filled, if any: the first raised value
RECURSIVE FirstRaised(_)
FirstRaised(items) ==
    IF items = <<>> THEN PyNone
    ELSE LET v == Head(items)[2]
             inner == IF v.kind = "dict" THEN FirstRaised(v.items) ELSE PyNone
         IN  IF v.kind = "raise" THEN v
             ELSE IF inner.kind = "raise" THEN inner
             ELSE FirstRaised(Tail(items))

-----------------------------------------------------------------------------
(* find_expedia_amount *)

AmountLabel == Cat(<<LitI("Amount to Charge Expedia"), Opt(Cat(<<Star(Space), LitI("Group")>>))>>)

AmountPatterns ==
    << Cat(<< AmountLabel, Star(Space), Lit(":"), Star(Space), Grp(1, Plus(AmountChars)),
              Star(Space), CurrencyRE(2) >>),
       Cat(<< AmountLabel, Star(Space), Lit(":"), Plus(In({"\r", "\n", " "})),
              Grp(1, Plus(AmountChars)), Star(Space), CurrencyRE(2) >>),
       Cat(<< AmountLabel, Plus(Space), Grp(1, Plus(AmountChars)), Star(Space),
              CurrencyRE(2) >>) >>

\* (?<!\d)(\d{1,3}(?:[.,]\d{3})+|\d+)(?![\d,])
BareAmountRE ==
    Cat(<< NotBehind(DigitSet),
           Grp(1, Alt(<< Cat(<< Rep(Digit, 1, 3),
                                Plus(Cat(<<In({".", ","}), Rep(Digit, 3, 3)>>)) >>),
                         Plus(Digit) >>)),
           NotAhead(DigitSet \cup {","}) >>)

AmountWindow == 200

\* f"{m.group(1)} {m.group(2)}"
WithCurrency(m, t) == Join(Group(m, t, 1)) \o " " \o Join(Group(m, t, 2))

\* the number found in the window after the label, "" without one
BareAmount(m, tail) == IF m.found THEN Join(Group(m, tail, 1)) ELSE ""

\* the fallback of find_expedia_amount: the window after the bare label
AmountAfter(anchor, t) ==
    IF anchor.found
    THEN BareAmount(Search(BareAmountRE,
                           SubSeq(t, anchor.e, IF anchor.e + AmountWindow - 1 <= Len(t)
                                               THEN anchor.e + AmountWindow - 1 ELSE Len(t))),
                    SubSeq(t, anchor.e, IF anchor.e + AmountWindow - 1 <= Len(t)
                                        THEN anchor.e + AmountWindow - 1 ELSE Len(t)))
    ELSE ""

\* a plausible slip: the loosest pattern is tried first
AmountOf_loosest_first(m1, m2, m3, t) ==
    IF m3.found THEN WithCurrency(m3, t)
    ELSE IF m1.found THEN WithCurrency(m1, t)
    ELSE IF m2.found THEN WithCurrency(m2, t)
    ELSE AmountAfter(Search(LitI("Amount to Charge Expedia"), t), t)

\* the loop over the three patterns, then the fallback
AmountOf(m1, m2, m3, t) ==
    IF m1.found THEN WithCurrency(m1, t)
    ELSE IF m2.found THEN WithCurrency(m2, t)
    ELSE IF m3.found THEN WithCurrency(m3, t)
    ELSE AmountAfter(Search(LitI("Amount to Charge Expedia"), t), t)

find_expedia_amount(t) ==
    AmountOf(Search(AmountPatterns[1], t), Search(AmountPatterns[2], t),
             Search(AmountPatterns[3], t), t)

-----------------------------------------------------------------------------
(* ExpediaParser.parse *)

CancelRE  == Cat(<<WordB, Grp(1, Alt(<<LitI("Cancellation"), LitI("Cancelled on")>>)), WordB>>)
GuestEmailRE ==
    Cat(<< LitI("Guest Email:"), Star(Space),
           Grp(1, Cat(<<Plus(NotSpace), Lit("@"), Plus(NotSpace)>>)) >>)
ReservationRE == Cat(<<LitI("Reservation ID:"), Star(Space), Grp(1, Plus(Digit))>>)
PrePaidRE == LitI("Guest has PRE-PAID")
BookedOnRE == Cat(<<LitI("Booked on:"), Star(Space), Grp(1, Lazy(Dot, 1, -1)), Lit("\n")>>)
RoomCodeRE == Cat(<<Lit("Room Type Code:"), Star(Space), Grp(1, Lazy(Dot, 1, -1)), Lit("\n")>>)
RoomNameRE ==
    Cat(<< Lit("Room Type Name:"), Star(Space), Grp(1, Lazy(Dot, 1, -1)),
           Opt(Cat(<<Star(Space), Lit("-"), Star(Space), Lit("Non-refundable")>>)),
           Star(Space), Lit("\n") >>)
DailyRateRE ==
    Cat(<< LitI("Daily Base Rate"), Lazy(AnyCh, 0, -1), Lit("-"), Star(Space),
           Grp(1, Plus(AmountChars)), Star(Space), CurrencyRE(2) >>)
TotalRE ==
    Cat(<< Grp(1, Alt(<<LitI("Total Booking Amount"), LitI("Total Booking Price")>>)),
           Star(Space), Opt(Lit(":")), Star(Space), Grp(2, Plus(AmountChars)), Star(Space),
           CurrencyRE(3) >>)
StayRE ==
    Cat(<< LitI("Check-In"), Plus(Space), LitI("Check-Out"), Plus(Space), LitI("Adults"),
           Plus(Space), LitI("Kids/Ages"), Lazy(AnyCh, 0, -1), Lit("\n"),
           Grp(1, LongDateRE), Plus(Space), Grp(2, LongDateRE), Plus(Space),
           Grp(3, Plus(Digit)), Plus(Space), Grp(4, Plus(Digit)) >>)
CardNumberRE == Cat(<<LitI("Card Number"), Plus(Space), Grp(1, Plus(In(DigitSet \cup {"-"})))>>)
ActivationRE == Cat(<<LitI("Activation Date"), Plus(Space), Grp(1, LongDateRE)>>)
ExpirationRE ==
    Cat(<<LitI("Expiration Date"), Star(Space), Grp(1, Lazy(Dot, 1, -1)), Lit("\n")>>)
ValidationRE == Cat(<<LitI("Validation Code"), Plus(Space), Grp(1, Plus(Digit))>>)

\* the month's last day (calendar.monthrange) for a month name and a year, else raw
ExpirationEnd(month, year, raw) ==
    IF month \in DOMAIN MONTH_MAP /\ year.ok
    THEN Str(Fmt02(MONTH_MAP[month]) \o "/" \o Fmt02(DaysIn(year.v, MONTH_MAP[month]))
             \o "/" \o Fmt(year.v))
    ELSE Str(Join(raw))

\* the try block on the tokens of raw
ExpirationTokens(toks, raw) ==
    IF Len(toks) >= 2
    THEN ExpirationEnd(Join(SubSeq(lower(toks[1]), 1, 3)), PyInt(RStrip(toks[2], {","})), raw)
    ELSE Str(Join(raw))

ExpirationRaw(raw) == ExpirationTokens(Split(raw), raw)

\* the Expiration Date value for the captured text: month and year become the
\* month's last day, anything else stays as captured
ExpirationValue(captured) == ExpirationRaw(Strip(captured))

\* if m: data[k] = mdy_to_mmddyyyy(m.group(n))
PutDate(d, m, k, t, n) == PutIf(d, m.found, k, mdy_to_mmddyyyy(GroupStr(m, t, n)))

\* if m: billing["Expiration Date"] = ...
PutExpiration(d, m, t) ==
    PutIf(d, m.found, "Expiration Date", ExpirationValue(Group(m, t, 1)))

\* the billing dict ExpediaParser.parse fills
ExpediaBilling(t) ==
    LET b1 == PutGroup(<<>>, Search(CardNumberRE, t), "Card Number", t, 1)
        b2 == PutDate(b1, Search(ActivationRE, t), "Activation Date", t, 1)
        b3 == PutExpiration(b2, Search(ExpirationRE, t), t)
    IN  PutGroup(b3, Search(ValidationRE, t), "Validation Code", t, 1)

\* if m: data["Room Type Code"] = m.group(1).strip()
PutRoomCode(d, m, t) ==
    PutIf(d, m.found, "Room Type Code", Str(Join(Strip(Group(m, t, 1)))))

\* the room code, from "Room Type Code:" or else from "Room Type Name:"
PutRoom(d, code, t) == PutRoomCode(d, IF code.found THEN code ELSE Search(RoomNameRE, t), t)

\* if m: data[k] = f"{m.group(a)} {m.group(c)}"
PutAmount(d, m, k, t, a, c) ==
    PutIf(d, m.found, k, Str(GroupStr(m, t, a) \o " " \o GroupStr(m, t, c)))

\* a plausible slip: the children count is not taken from the row
PutStay_without_children(d, m, t) ==
    PutGroup(PutDate(PutDate(d, m, "Check in", t, 1), m, "Check out", t, 2),
             m, "Occupancy Adult", t, 3)

\* the four keys the stay table gives
PutStay(d, m, t) ==
    LET s1 == PutDate(d, m, "Check in", t, 1)
        s2 == PutDate(s1, m, "Check out", t, 2)
        s3 == PutGroup(s2, m, "Occupancy Adult", t, 3)
    IN  PutGroup(s3, m, "Occupancy Childrent", t, 4)

\* self.data when ExpediaParser.parse reaches its return
ExpediaData(t) ==
    LET d1  == SetKey(<<>>, "Status booking Reservation",
                      Str(IF Search(CancelRE, t).found THEN "Cancelled" ELSE "Confirmed"))
        d2  == PutGroup(d1, Search(GuestEmailRE, t), "Email Customer", t, 1)
        d3  == PutGroup(d2, Search(ReservationRE, t), "BookingID", t, 1)
        d4  == SetKey(d3, "Has Prepaid", Bool(Search(PrePaidRE, t).found))
        d5  == PutDate(d4, Search(BookedOnRE, t), "Booked on", t, 1)
        d6  == PutRoom(d5, Search(RoomCodeRE, t), t)
        d7  == PutAmount(d6, Search(DailyRateRE, t), "Daily Rate", t, 1, 2)
        d8  == PutAmount(d7, Search(TotalRE, t), "Total Booking", t, 2, 3)
        d9  == PutText(d8, "Amount to Charge Expedia", find_expedia_amount(t))
        d10 == PutStay(d9, Search(StayRE, t), t)
        d11 == SetDefault(d10, "Special Request", Str(""))
        d12 == SetDefault(d11, "No. of room", Str("1"))
    IN  SetKey(d12, "Billing Details:", Dict(ExpediaBilling(t)))

\* parse()'s return for the data d and the exception x a step let through, if any
ParseReturn(d, x) == IF x.kind = "raise" THEN x ELSE ordered_output(d)

\* ordered_output(self.data), unless filling the data raised
ParseResult(d) == ParseReturn(d, FirstRaised(d))

\* ExpediaParser(text).parse(): the record, or the exception a step let through
ExpediaParse(text_norm) == ParseResult(ExpediaData(norm_text(text_norm)))

-----------------------------------------------------------------------------
(* find_agoda_first_daily_rate, find_agoda_total_gross *)

RatesHeaderRE ==
    Cat(<< LitI("From"), Star(Space), Lit("-"), Star(Space), LitI("To"), Star(Space),
           LitI("Rates") >>)
FirstRateRE ==
    Cat(<< WordB, LitI("VND"), WordB, Star(Space), Lit("\n"), Star(Space), Grp(1, GroupedRE),
           FractionRE >>)
GrossRE ==
    Cat(<< LitI("Reference sell rate"), Lazy(AnyCh, 0, -1), WordB, LitI("VND"), WordB,
           Star(Space), Grp(1, GroupedRE), FractionRE >>)
NetRE ==
    Cat(<< LitI("Net rate"), Star(Space), LitI("(incl. taxes & fees)"), Star(Space), Lit("\n"),
           Star(Space), LitI("VND"), Star(Space), Star(Space), Grp(1, GroupedRE),
           FractionRE >>)

\* f"{m.group(1)} VND" for the match m in tail, "" without one
RateIn(m, tail) == IF m.found THEN Join(Group(m, tail, 1)) \o " VND" ELSE ""

FirstRate(tail) == RateIn(Search(FirstRateRE, tail), tail)

\* the text after the rates header, the whole text without one
AfterHeader(anchor, t) == IF anchor.found THEN SubSeq(t, anchor.e, Len(t)) ELSE t

find_agoda_first_daily_rate(t) ==
    IF t = <<>> THEN "" ELSE FirstRate(AfterHeader(Search(RatesHeaderRE, t), t))

find_agoda_total_gross(t) ==
    IF t = <<>> THEN "" ELSE RateIn(Search(GrossRE, t), t)

-----------------------------------------------------------------------------
(* AgodaParser.parse *)

\* [A-ZÀ-Ỹ' \-]; of the range À-Ỹ the model keeps three members
NameChars == In(UpperSet \cup {"'", " ", "-", "À", "á", "Ỹ"})

PrepaidRE   == Cat(<<WordB, LitI("PREPAID"), WordB>>)
BookingIdRE == Cat(<<LitI("Booking ID"), Star(Space), Grp(1, Plus(Digit))>>)
FirstNameRE == Cat(<<Lit("Customer First Name"), Plus(Space), Grp(1, Plus(NameChars))>>)
LastNameRE  == Cat(<<Lit("Customer Last Name"), Plus(Space), Grp(1, Plus(NameChars))>>)
AgodaEmailRE ==
    Cat(<< LitI("Email:"), Star(Space),
           Grp(1, Cat(<< Plus(NotSpace), Lit("@"), Plus(NotSpace),
                         LitI("agoda-messaging.com") >>)) >>)
CheckRE(word) ==
    Cat(<< LitI("Check"), In({"-", " "}), LitI(word), Plus(Space),
           Grp(1, Rep(In(AlphaSet), 3, 9)), Star(Space), Grp(2, Rep(Digit, 1, 2)), Lit(","),
           Star(Space), Grp(3, Rep(Digit, 4, 4)) >>)
CheckInRE  == CheckRE("in")
CheckOutRE == CheckRE("out")
RoomTableRE ==
    Cat(<< LitI("Room Type"), Plus(Space), LitI("No. of Rooms"), Plus(Space),
           LitI("Occupancy"), Lazy(Dot, 0, -1), Lit("\n"), Grp(1, Plus(NotIn({"\n"}))) >>)
AdultRE == Cat(<<Grp(1, Plus(Digit)), Plus(Space), Lit("Adult")>>)
ChildRE == Cat(<<Grp(1, Plus(Digit)), Plus(Space), Lit("Child")>>)

\* the loop over the table row's tokens: the tokens before the first numeral
RECURSIVE RoomTokens(_)
RoomTokens(toks) ==
    IF toks = <<>> \/ IsDigit(Head(toks)) THEN <<>>
    ELSE <<Head(toks)>> \o RoomTokens(Tail(toks))

\* the loop over the table row's tokens: its numerals
Numbers(toks) == SelectSeq(toks, IsDigit)

\* the keys the table row gives: the room tokens and the first two numerals
PutRow(d, found, rooms, numbers) ==
    LET d1 == PutIf(d, found /\ rooms # <<>>, "Room Type Code",
                    Str(Join(JoinWith(rooms, <<" ">>))))
        d2 == PutIf(d1, found /\ numbers # <<>>, "No. of room", Str(Join(numbers[1])))
    IN  PutIf(d2, found /\ Len(numbers) >= 2, "Occupancy Adult", Str(Join(numbers[2])))

PutTokens(d, found, toks) == PutRow(d, found, RoomTokens(toks), Numbers(toks))

\* the room table: the first line after the header, split into tokens
PutTable(d, row, t) == PutTokens(d, row.found, Split(Strip(Group(row, t, 1))))

\* a plausible slip: the "<N> Adult" token is read even when the table gave the count
PutAdult_unguarded(d, m, t) == PutGroup(d, m, "Occupancy Adult", t, 1)

\* if "Occupancy Adult" not in self.data: the "<N> Adult" token
PutAdult(d, m, t) ==
    PutIf(d, ~HasKey(d, "Occupancy Adult") /\ m.found, "Occupancy Adult",
          Str(GroupStr(m, t, 1)))

\* the "<N> Child" token, or the default "0"
PutChild(d, m, t) ==
    IF m.found THEN SetKey(d, "Occupancy Childrent", Str(GroupStr(m, t, 1)))
    ELSE SetDefault(d, "Occupancy Childrent", Str("0"))

\* the room and occupancy part of AgodaParser.parse, on the data d filled so far
AgodaOccupancy(d, t) ==
    LET d3 == PutTable(d, Search(RoomTableRE, t), t)
        d4 == PutAdult(d3, Search(AdultRE, t), t)
        d5 == PutChild(d4, Search(ChildRE, t), t)
        d6 == SetDefault(d5, "Occupancy Adult", Str("1"))
    IN  SetDefault(d6, "No. of room", Str("1"))

\* if m: data[k] = m.group(1).title()
PutName(d, m, k, t) == PutIf(d, m.found, k, Str(Join(Title(Group(m, t, 1)))))

\* if m: data[k] = parse_month_day_year(m.group(1), m.group(2), m.group(3))
PutCheck(d, m, k, t) ==
    PutIf(d, m.found, k,
          parse_month_day_year(GroupStr(m, t, 1), GroupStr(m, t, 2), GroupStr(m, t, 3)))

\* a plausible slip: the net rate is preferred to the reference sell rate
PutTotal_net_first(d, gross, net, t) ==
    IF net.found THEN SetKey(d, "Total Booking", Str(GroupStr(net, t, 1) \o " VND"))
    ELSE PutIf(d, gross # "", "Total Booking", Str(gross))

\* the gross total, or else the net rate
PutTotal(d, gross, net, t) ==
    IF gross # "" THEN SetKey(d, "Total Booking", Str(gross))
    ELSE PutIf(d, net.found, "Total Booking", Str(GroupStr(net, t, 1) \o " VND"))

\* self.data when AgodaParser.parse reaches its return
AgodaData(t) ==
    LET d1  == SetKey(<<>>, "Status booking Reservation", Str("Confirmed"))
        d2  == SetKey(d1, "Has Prepaid", Bool(Search(PrepaidRE, t).found))
        d3  == PutGroup(d2, Search(BookingIdRE, t), "BookingID", t, 1)
        d4  == PutName(d3, Search(FirstNameRE, t), "Customer First Name", t)
        d5  == PutName(d4, Search(LastNameRE, t), "Customer Last Name", t)
        d6  == PutGroup(d5, Search(AgodaEmailRE, t), "Email Customer", t, 1)
        d7  == PutText(d6, "Booked on", parse_vi_sent_datetime(Join(t)))
        d8  == PutCheck(d7, Search(CheckInRE, t), "Check in", t)
        d9  == PutCheck(d8, Search(CheckOutRE, t), "Check out", t)
        d10 == AgodaOccupancy(d9, t)
        d11 == SetDefault(d10, "Special Request", Str(""))
        d12 == PutText(d11, "Daily Rate", find_agoda_first_daily_rate(t))
        d13 == PutTotal(d12, find_agoda_total_gross(t), Search(NetRE, t), t)
        d14 == SetKey(d13, "Amount to Charge Expedia", Str(""))
    IN  SetKey(d14, "Billing Details:", Dict(<<>>))

\* AgodaParser(text).parse(): the record, or the exception a step let through
AgodaParse(text_norm) == ParseResult(AgodaData(norm_text(text_norm)))

-----------------------------------------------------------------------------
(* save_data_as_txt, build_html *)

\* f"{value}"
Format(v) == v.s

\* a plausible slip: the Billing Details key is not kept out of the first loop
save_data_as_txt_all_keys(items) ==
    Join([i \in 1..Len(items) |-> items[i][1] \o ": " \o Format(items[i][2]) \o "\n"])
    \o "\n--- Billing Details: ---\n"
    \o Join([j \in 1..Len(Get(items, "Billing Details:", PyNone).items) |->
                "  " \o Get(items, "Billing Details:", PyNone).items[j][1] \o ": "
                \o Format(Get(items, "Billing Details:", PyNone).items[j][2]) \o "\n"])

\* what save_data_as_txt writes to the file
save_data_as_txt(items) ==
    LET top  == SelectSeq(items, LAMBDA kv : kv[1] # "Billing Details:")
        bill == Get(items, "Billing Details:", PyNone).items
    IN  Join([i \in 1..Len(top) |-> top[i][1] \o ": " \o Format(top[i][2]) \o "\n"])
        \o "\n--- Billing Details: ---\n"
        \o Join([j \in 1..Len(bill) |-> "  " \o bill[j][1] \o ": " \o Format(bill[j][2]) \o "\n"])

HtmlStyle ==
    "<style>\n"
    \o "body{font-family:system-ui,-apple-system,Segoe UI,Roboto,Arial,sans-serif;margin:24px;line-height:1.45}\n"
    \o "h1{font-size:20px;margin:0 0 8px}\n"
    \o ".badge{display:inline-block;padding:2px 8px;border-radius:999px;background:#fee2e2;color:#991b1b;\n"
    \o "       font-weight:700;font-size:12px;margin-left:6px}\n"
    \o "table{border-collapse:collapse;min-width:720px;max-width:980px;box-shadow:0 2px 8px rgba(0,0,0,.06)}\n"
    \o "td,th{border:1px solid #e5e7eb;padding:8px 10px;vertical-align:top}\n"
    \o "td:first-child{background:#f9fafb;font-weight:600;width:260px}\n"
    \o "tfoot td{border:none;color:#6b7280;padding-top:10px}\n"
    \o "</style>\n"

\* one table row of build_html
HtmlRow(k, v) == "<tr><td>" \o k \o "</td><td>" \o v \o "</td></tr>"

\* build_html(data)
build_html(items) ==
    LET status == Format(Get(items, "Status booking Reservation", Str("")))
        top    == SelectSeq(items, LAMBDA kv : kv[1] # "Billing Details:")
        bill   == Get(items, "Billing Details:", PyNone).items
        rows   == [i \in 1..Len(top) |-> HtmlRow(top[i][1], Format(top[i][2]))]
        bill_rows == [j \in 1..Len(BILLING_ORDER) |->
                        HtmlRow(BILLING_ORDER[j], Format(Get(bill, BILLING_ORDER[j], Str(""))))]
    IN  "<!doctype html>\n"
        \o "<html lang=\"en\"><meta charset=\"utf-8\"><title>"
        \o Format(Get(items, "BookingID", Str(""))) \o "-report</title>\n"
        \o HtmlStyle
        \o "<h1>Normalized Booking <span class=\"badge\">" \o status \o "</span></h1>\n"
        \o "<table><tbody>\n"
        \o Join(rows) \o "\n"
        \o "<tr><th colspan=\"2\" style=\"text-align:left\">Billing Details</th></tr>\n"
        \o Join(bill_rows) \o "\n"
        \o "</tbody>\n"
        \o "<tfoot><tr><td colspan=\"2\">Source: OTA confirmation email PDF.</td></tr></tfoot>\n"
        \o "</table></html>"

-----------------------------------------------------------------------------
(* process_pdf *)

\* "\n".join(page.extract_text() or "" for page in pdf.pages)
RECURSIVE FullText(_)
FullText(pages) ==
    IF pages = <<>> THEN ""
    ELSE IF Len(pages) = 1 THEN pages[1]
    ELSE pages[1] \o "\n" \o FullText(Tail(pages))

\* sub in t
Contains(t, sub) == Search(Lit(sub), t).found

\* a plausible slip: Agoda is tried before Expedia
Detect_agoda_first(low) ==
    IF Contains(low, "agoda") /\ Contains(low, "booking id") THEN "Agoda"
    ELSE IF Contains(low, "expedia") \/ Contains(low, "expediapartnercentral") THEN "Expedia"
    ELSE ""

\* the branch process_pdf takes on the lower-cased text: the parser's name, "" for the raise
Detect(low) ==
    IF Contains(low, "expedia") \/ Contains(low, "expediapartnercentral") THEN "Expedia"
    ELSE IF Contains(low, "agoda") /\ Contains(low, "booking id") THEN "Agoda"
    ELSE ""

\* what process_pdf wrote for the record rec the parser of src returned, or raised
Outcome(src, rec) ==
    IF rec.kind = "raise"
    THEN [source |-> src, error |-> rec.s, data |-> PyNone, txt |-> "", html |-> ""]
    ELSE [source |-> src, error |-> "", data |-> rec,
          txt |-> save_data_as_txt(rec.items), html |-> build_html(rec.items)]

\* the if/elif/else on the detected source
Dispatch(src, text_norm) ==
    IF src = ""
    THEN [source |-> "", error |-> "ValueError", data |-> PyNone, txt |-> "", html |-> ""]
    ELSE Outcome(src, IF src = "Expedia" THEN ExpediaParse(text_norm)
                      ELSE AgodaParse(text_norm))

ProcessText(text_norm) == Dispatch(Detect(lower(text_norm)), text_norm)

\* process_pdf from the extracted pages on: what it chose, raised and wrote
process_pdf(pages) == ProcessText(norm_text(Chars(FullText(pages))))

-----------------------------------------------------------------------------
(* What the variables hold in a scenario that does not use them *)

FnIdle  == ret = "" /\ ret2 = ""
MapIdle == data = <<>> /\ result = PyNone /\ result2 = PyNone
PdfIdle == source = "" /\ error = "" /\ txt_file = "" /\ html_file = ""

\* PdfExtractorApp.__init__: nothing chosen, nothing logged, no thread
AppIdle ==
    /\ file_list = <<>> /\ btn_start = "normal" /\ log_queue = <<>> /\ log_text = <<>>
    /\ thread = "none" /\ index = 0 /\ total_files = 0 /\ written = {}

-----------------------------------------------------------------------------
(* Scenario: norm_text on every short text over NormAlphabet, then on its  *)
(* own result.                                                             *)

MaxNormLen == 5

NormAlphabet == {"a", " ", "\t", "\n", NBSP}

NormInit ==
    /\ text = "" /\ parts = <<>> /\ phase = "compose"
    /\ FnIdle /\ MapIdle /\ PdfIdle /\ AppIdle

NormType(c) ==
    /\ phase = "compose"
    /\ Len(text) < MaxNormLen
    /\ text' = text \o c
    /\ UNCHANGED <<parts, fnVars, mapVars, pdfVars, appVars, phase>>

NormCall ==
    /\ phase = "compose"
    /\ ret' = Join(norm_text(Chars(text)))
    /\ phase' = "once"
    /\ UNCHANGED <<text, parts, ret2, mapVars, pdfVars, appVars>>

NormCallAgain ==
    /\ phase = "once"
    /\ ret2' = Join(norm_text(Chars(ret)))
    /\ phase' = "twice"
    /\ UNCHANGED <<text, parts, ret, mapVars, pdfVars, appVars>>

NormNext ==
    \/ \E c \in NormAlphabet : NormType(c)
    \/ NormCall
    \/ NormCallAgain

SpecNorm == NormInit /\ [][NormNext]_vars

\* the characters of s from i to j form a run of members of S
RunOf(s, i, j, S) == \A k \in i..j : SubSeq(s, k, k) \in S

HasRun2(s, S) == \E i \in 1..(Len(s) - 1) : RunOf(s, i, i + 1, S)

\* a line of s (between two newlines, or an end of s and a newline) holding only blanks
HasBlankLine(s) ==
    \E i \in 0..Len(s), j \in 1..(Len(s) + 1) :
        /\ i < j
        /\ i = 0 \/ SubSeq(s, i, i) = "\n"
        /\ j = Len(s) + 1 \/ SubSeq(s, j, j) = "\n"
        /\ i > 0 \/ j <= Len(s)
        /\ RunOf(s, i + 1, j - 1, {" ", "\t", NBSP})

NormClean(s) ==
    /\ \A k \in 1..Len(s) : SubSeq(s, k, k) # NBSP
    /\ ~HasRun2(s, {" ", "\t"})
    /\ ~HasRun2(s, {"\n"})
    /\ s = "" \/ (SubSeq(s, 1, 1) \notin WhiteSet /\ SubSeq(s, Len(s), Len(s)) \notin WhiteSet)

\* C7 as stated: norm_text is idempotent and its output has no non-breaking
\* space, no run of two spaces/tabs, no run of two newlines, no blank line (a
\* line holding only a space included), no leading or trailing whitespace.
C7_AsStated ==
    /\ phase \in {"once", "twice"} => NormClean(ret) /\ ~HasBlankLine(ret)
    /\ phase = "twice" => ret2 = ret

\* C7 amended: as stated, except that a line holding a single space may stay
\* between two single newlines (norm_text("a\n \nb") = "a\n \nb").
C7_NormText ==
    /\ phase \in {"once", "twice"} => NormClean(ret)
    /\ phase = "twice" => ret2 = ret
    /\ phase \in {"once", "twice"} /\ text = "" => ret = ""

\* C7 witness: a text with a non-breaking space, a tab run and a newline run was
\* normalised twice
C7_Witness ==
    /\ phase = "twice"
    /\ text = "\t\ta" \o NBSP \o "\n"
    /\ ret = "a"

\* C7 witness of the amendment's case: the blank line that stays
C7_BlankLineStays ==
    /\ phase = "twice"
    /\ text = "a\n \na"
    /\ ret = text /\ ret2 = text

-----------------------------------------------------------------------------
(* Scenario: a map is filled key by key, in any order, then handed to      *)
(* ordered_output, and the result handed to it again.                      *)

MaxItems == 2

\* the keys a caller may set: the schema's and two that are not in it
InputKeys == ToSet(FIELD_ORDER) \cup {"Source", "Card Number"}

\* billing values: absent subkeys, an extra one, out of order, falsy, not a map
BillingInputs ==
    { Dict(<<>>),
      Dict(<< <<"Expiration Date", Str("09/30/2030")>> >>),
      Dict(<< <<"Validation Code", Str("123")>>, <<"Issuer", Str("x")>>,
              <<"Card Number", Str("4111")>> >>),
      PyNone,
      Str("n/a") }

InputValues(k) ==
    IF k = "Billing Details:" THEN BillingInputs
    ELSE IF k = "Has Prepaid" THEN {Bool(TRUE)}
    ELSE {Str("x")}

SchemaInit ==
    /\ text = "" /\ parts = <<>> /\ phase = "compose"
    /\ FnIdle /\ MapIdle /\ PdfIdle /\ AppIdle

SchemaSet(k, v) ==
    /\ phase = "compose"
    /\ HasKey(data, k) \/ Len(data) < MaxItems
    /\ data' = SetKey(data, k, v)
    /\ UNCHANGED <<text, parts, fnVars, result, result2, pdfVars, appVars, phase>>

SchemaCall ==
    /\ phase = "compose"
    /\ result' = ordered_output(data)
    /\ phase' = "once"
    /\ UNCHANGED <<text, parts, fnVars, data, result2, pdfVars, appVars>>

SchemaCallAgain ==
    /\ phase = "once"
    /\ result.kind = "dict"
    /\ result2' = ordered_output(result.items)
    /\ phase' = "twice"
    /\ UNCHANGED <<text, parts, fnVars, data, result, pdfVars, appVars>>

SchemaNext ==
    \/ \E k \in InputKeys : \E v \in InputValues(k) : SchemaSet(k, v)
    \/ SchemaCall
    \/ SchemaCallAgain

SpecSchema == SchemaInit /\ [][SchemaNext]_vars

\* the input's Billing Details value is one the claim covers: absent, falsy or a map
BillingIsMap(d) ==
    LET b == Get(d, "Billing Details:", Dict(<<>>)) IN b.kind = "dict" \/ ~Truthy(b)

DefaultOf(k) == IF k = "Has Prepaid" THEN Bool(FALSE) ELSE Str("")

\* C1: for every input map whose Billing Details is absent, falsy or a map,
\* ordered_output returns exactly the 18 keys of FIELD_ORDER in that order, its
\* Billing Details value has exactly the 4 keys of BILLING_ORDER in that order,
\* a field the input lacks carries "" (False for Has Prepaid) and a field it
\* has carries the input's value.
C1_SchemaComplete ==
    (phase \in {"once", "twice"} /\ BillingIsMap(data)) =>
        /\ result.kind = "dict"
        /\ KeysOf(result.items) = FIELD_ORDER
        /\ LET bill == Get(result.items, "Billing Details:", PyNone)
               sub  == Get(data, "Billing Details:", Dict(<<>>))
           IN  /\ bill.kind = "dict"
               /\ KeysOf(bill.items) = BILLING_ORDER
               /\ \A j \in 1..Len(BILLING_ORDER) :
                     bill.items[j][2] =
                        IF sub.kind = "dict" /\ HasKey(sub.items, BILLING_ORDER[j])
                        THEN Get(sub.items, BILLING_ORDER[j], PyNone)
                        ELSE Str("")
        /\ \A i \in 1..(Len(FIELD_ORDER) - 1) :
              result.items[i][2] =
                 IF HasKey(data, FIELD_ORDER[i])
                 THEN Get(data, FIELD_ORDER[i], PyNone)
                 ELSE DefaultOf(FIELD_ORDER[i])

\* C1 witness: an unordered map with a key outside the schema and no billing
\* map was normalised
C1_Witness ==
    /\ phase = "once"
    /\ KeysOf(data) = <<"Source", "BookingID">>
    /\ result.kind = "dict"
    /\ Len(result.items) = 18

\* C2: ordered_output(ordered_output(x)) = ordered_output(x), the nested
\* Billing Details sub-map included.
C2_Idempotent ==
    phase = "twice" => result2 = result

\* C2 witness: a map with a partial billing map was normalised twice
C2_Witness ==
    /\ phase = "twice"
    /\ HasKey(data, "Billing Details:")
    /\ Get(Get(result2.items, "Billing Details:", PyNone).items, "Expiration Date", PyNone)
          = Str("09/30/2030")


-----------------------------------------------------------------------------
(* Scenario: parse_vi_sent_datetime on header lines put together from      *)
(* words: numeric dates, "thang" phrases and words that are neither.       *)

MaxWords == 3

NumericWords == {"10/11/2025", "5/3/2024"}
ThangWords   == {"7 tháng 2, 2024", "12 THANG 1, 2023"}
OtherWords   == {"Ngày", "10:51", "31/12/20255"}
ViWords      == NumericWords \cup ThangWords \cup OtherWords

ViInit ==
    /\ text = "" /\ parts = <<>> /\ phase = "compose"
    /\ FnIdle /\ MapIdle /\ PdfIdle /\ AppIdle

ViType(w) ==
    /\ phase = "compose"
    /\ Len(parts) < MaxWords
    /\ parts' = Append(parts, w)
    /\ text' = IF text = "" THEN w ELSE text \o " " \o w
    /\ UNCHANGED <<fnVars, mapVars, pdfVars, appVars, phase>>

ViCall ==
    /\ phase = "compose"
    /\ ret' = parse_vi_sent_datetime(text)
    /\ phase' = "once"
    /\ UNCHANGED <<text, parts, ret2, mapVars, pdfVars, appVars>>

ViNext ==
    \/ \E w \in ViWords : ViType(w)
    \/ ViCall

SpecVi == ViInit /\ [][ViNext]_vars

\* the date a word of the header stands for, month first
MonthFirst(w) ==
    CASE w = "10/11/2025"       -> "11/10/2025"
      [] w = "5/3/2024"         -> "03/05/2024"
      [] w = "7 tháng 2, 2024"  -> "02/07/2024"
      [] w = "12 THANG 1, 2023" -> "01/12/2023"

FirstIn(ws, S) == ws[CHOOSE i \in 1..Len(ws) : ws[i] \in S /\ \A j \in 1..(i - 1) : ws[j] \notin S]

\* C10: parse_vi_sent_datetime returns the first DD/MM/YYYY numeric date of the
\* text as MM/DD/YYYY (day and month swapped, each padded to two digits); only
\* when the text holds no numeric date, the first "DD thang MM, YYYY" phrase the
\* same way; and "" when it holds neither.
C10_SentDate ==
    phase = "once" =>
        ret = IF \E i \in 1..Len(parts) : parts[i] \in NumericWords
              THEN MonthFirst(FirstIn(parts, NumericWords))
              ELSE IF \E i \in 1..Len(parts) : parts[i] \in ThangWords
              THEN MonthFirst(FirstIn(parts, ThangWords))
              ELSE ""

\* C10 witness: a phrase date stands before the numeric date, which still wins
C10_Witness ==
    /\ phase = "once"
    /\ parts = <<"Ngày", "7 tháng 2, 2024", "5/3/2024">>
    /\ ret = "03/05/2024"

-----------------------------------------------------------------------------
(* Scenarios: process_pdf on a document put together page by page.  Each   *)
(* scenario draws the pages from a collection of its own.                  *)

MaxPages == 3

PdfInit ==
    /\ text = "" /\ parts = <<>> /\ phase = "compose"
    /\ FnIdle /\ MapIdle /\ PdfIdle /\ AppIdle

\* the document gains the page p
AddPage(p) ==
    /\ phase = "compose"
    /\ Len(parts) < MaxPages
    /\ parts' = Append(parts, p)
    /\ text' = FullText(parts')
    /\ UNCHANGED <<fnVars, mapVars, pdfVars, appVars, phase>>

\* the outcome r of process_pdf, kept
Returned(r) ==
    /\ source' = r.source
    /\ error' = r.error
    /\ result' = r.data
    /\ txt_file' = r.txt
    /\ html_file' = r.html

\* process_pdf(filepath) on the document
ProcessPdf ==
    /\ phase = "compose"
    /\ Returned(process_pdf(parts))
    /\ phase' = "done"
    /\ UNCHANGED <<text, parts, fnVars, data, result2, appVars>>

\* the record process_pdf handed to the renderers has every key of the schema
FullyKeyed(rec) ==
    /\ rec.kind = "dict"
    /\ KeysOf(rec.items) = FIELD_ORDER
    /\ KeysOf(Get(rec.items, "Billing Details:", PyNone).items) = BILLING_ORDER

\* the value the record holds under key k
Field(rec, k) == Get(rec.items, k, PyNone)

-----------------------------------------------------------------------------
(* Scenario: vendor detection.  Pages that carry the vendors' tokens in    *)
(* other case and spacing than the tokens', a page with none, a blank one. *)

DetectPages ==
    { "Expedia Reservation", "www.ExpediaPartnerCentral.com", "AGODA", "Booking \t ID 123",
      "Hotel voucher", "" }

DetectNext ==
    \/ \E p \in DetectPages : AddPage(p)
    \/ ProcessPdf

SpecDetect == PdfInit /\ [][DetectNext]_vars

\* the tokens a page of DetectPages carries once normalised and lower-cased
TokensOf(p) ==
    CASE p = "Expedia Reservation"           -> {"expedia"}
      [] p = "www.ExpediaPartnerCentral.com" -> {"expedia", "expediapartnercentral"}
      [] p = "AGODA"                         -> {"agoda"}
      [] p = "Booking \t ID 123"             -> {"booking id"}
      [] OTHER                               -> {}

TokensIn(ps) == UNION {TokensOf(ps[i]) : i \in 1..Len(ps)}

\* C3: detection is a total, ordered decision on the lower-cased normalised
\* text.  With an Expedia token ("expedia", "expediapartnercentral") the Expedia
\* extractor runs, the Agoda tokens present or not; otherwise with both "agoda"
\* and "booking id" the Agoda extractor runs; otherwise ("agoda" alone included)
\* the unrecognised-source error is raised, no extractor runs and nothing is
\* written.
C3_Detection ==
    phase = "done" =>
        IF TokensIn(parts) \cap {"expedia", "expediapartnercentral"} # {}
        THEN /\ source = "Expedia" /\ error = ""
             /\ FullyKeyed(result) /\ Field(result, "Occupancy Childrent") = Str("")
             /\ txt_file # "" /\ html_file # ""
        ELSE IF {"agoda", "booking id"} \subseteq TokensIn(parts)
        THEN /\ source = "Agoda" /\ error = ""
             /\ FullyKeyed(result) /\ Field(result, "Occupancy Childrent") = Str("0")
             /\ txt_file # "" /\ html_file # ""
        ELSE /\ source = "" /\ error = "ValueError"
             /\ result = PyNone /\ txt_file = "" /\ html_file = ""

\* C3 witness: a document with both Agoda tokens and an Expedia token went to
\* the Expedia extractor
C3_Witness ==
    /\ phase = "done"
    /\ parts = <<"AGODA", "Booking \t ID 123", "Expedia Reservation">>
    /\ source = "Expedia"

\* C3 witness of the last branch: "agoda" without "booking id" was refused
C3_AgodaAlone ==
    /\ phase = "done"
    /\ parts = <<"AGODA", "Hotel voucher">>
    /\ error = "ValueError" /\ html_file = ""

-----------------------------------------------------------------------------
(* Scenario: documents with malformed and missing dates.  A month no       *)
(* calendar has, a day its month lacks, a year that is no number, for both *)
(* vendors, and a page with no vendor on it.                               *)

RobustPages ==
    { "Expedia\nBooked on: Foo 99, 2025\nx",
      "Expiration Date Jan 20x0\nx",
      "Check-In Check-Out Adults Kids/Ages\nFeb 30, 2025 Sept 5, 2025 2 0",
      "Agoda Booking ID 9\nCheck in Foo 5, 2025",
      "Hotel voucher" }

RobustNext ==
    \/ \E p \in RobustPages : AddPage(p)
    \/ ProcessPdf

SpecRobust == PdfInit /\ [][RobustNext]_vars

-----------------------------------------------------------------------------
(* Scenario: Expedia documents whose captured values carry markup, and     *)
(* documents with a "Guest:" line.                                         *)

ExpediaPages ==
    { "Expedia Reservation ID: 42",
      "Guest: John Smith",
      "Guest: Cher",
      "Guest: Mary Ann Lee",
      "Room Type Code: <b>Sea & Sky</b>",
      "Expiration Date \"soon\" 'or' later" }

ExpediaNext ==
    \/ \E p \in ExpediaPages : AddPage(p)
    \/ ProcessPdf

SpecExpedia == PdfInit /\ [][ExpediaNext]_vars

\* html.escape(s, quote=True)
EscapeChar(c) ==
    CASE c = "&"  -> "&amp;"
      [] c = "<"  -> "&lt;"
      [] c = ">"  -> "&gt;"
      [] c = "\"" -> "&quot;"
      [] c = "'"  -> "&#x27;"
      [] OTHER    -> c

html_escape(s) == Join([i \in 1..Len(s) |-> EscapeChar(SubSeq(s, i, i))])

EscapedValue(v) == [v EXCEPT !.s = html_escape(v.s)]

EscapedFlat(items) ==
    [i \in 1..Len(items) |-> <<items[i][1], EscapedValue(items[i][2])>>]

\* the record with every value, the billing subfields' included, escaped
EscapedItems(items) ==
    [i \in 1..Len(items) |->
        <<items[i][1],
          IF items[i][2].kind = "dict" THEN Dict(EscapedFlat(items[i][2].items))
          ELSE EscapedValue(items[i][2])>>]

\* C5 as stated: every value build_html puts into the markup is escaped first:
\* the document written is the one rendered from the record's escaped values, so
\* the characters < > & " of a value appear in the cells in escaped form only.
C5_AsStated ==
    phase = "done" /\ error = "" => html_file = build_html(EscapedItems(result.items))

\* the first and last name the spec's rule gives for a page with a "Guest:" line
GuestOf(p) ==
    CASE p = "Guest: John Smith"   -> <<"John", "Smith">>
      [] p = "Guest: Cher"         -> <<"Cher", "">>
      [] p = "Guest: Mary Ann Lee" -> <<"Mary Ann", "Lee">>
      [] OTHER                     -> <<>>

GuestPages(ps) == {i \in 1..Len(ps) : GuestOf(ps[i]) # <<>>}

\* C8 as stated: for an Expedia text with a "Guest:" label followed by a name,
\* Customer First Name is all the name's tokens but the last and Customer Last
\* Name the last token; a single-token name is the first name, the last name "".
C8_AsStated ==
    phase = "done" /\ source = "Expedia" /\ GuestPages(parts) # {} =>
        /\ Field(result, "Customer First Name")
               = Str(GuestOf(parts[Least(GuestPages(parts))])[1])
        /\ Field(result, "Customer Last Name")
               = Str(GuestOf(parts[Least(GuestPages(parts))])[2])

-----------------------------------------------------------------------------
(* Scenario: Agoda documents with a room table of two numerals, a room     *)
(* table of one, "<N> Adult" and "<N> Child" tokens, or none of them.      *)

AgodaPages ==
    { "Agoda Booking ID 7",
      "Room Type No. of Rooms Occupancy\nDeluxe King 2 3",
      "Room Type No. of Rooms Occupancy\nSuite 5",
      "4 Adults",
      "6 Child" }

AgodaNext ==
    \/ \E p \in AgodaPages : AddPage(p)
    \/ ProcessPdf

SpecAgoda == PdfInit /\ [][AgodaNext]_vars

\* the numerals of the table row a page carries
RowOf(p) ==
    CASE p = "Room Type No. of Rooms Occupancy\nDeluxe King 2 3" -> <<"2", "3">>
      [] p = "Room Type No. of Rooms Occupancy\nSuite 5"         -> <<"5">>
      [] OTHER                                                    -> <<>>

TablePages(ps) == {i \in 1..Len(ps) : RowOf(ps[i]) # <<>>}

\* the numerals of the first table row of the document, <<>> without a table
FirstRow(ps) == IF TablePages(ps) = {} THEN <<>> ELSE RowOf(ps[Least(TablePages(ps))])

HasPage(ps, p) == \E i \in 1..Len(ps) : ps[i] = p

\* C9: AgodaParser.parse always gives No. of room, Occupancy Adult and
\* Occupancy Childrent a value.  The table row's first numeral is the room
\* count and its second the adult count, before any "<N> Adult" token; with
\* no table or fewer than two numerals the adult count is the "<N> Adult"
\* token's, the child count the "<N> Child" token's; with nothing, "1", "1", "0".
C9_Occupancy ==
    phase = "done" /\ source = "Agoda" =>
        /\ error = ""
        /\ \A k \in {"No. of room", "Occupancy Adult", "Occupancy Childrent"} :
               Field(result, k).kind = "str" /\ Field(result, k).s # ""
        /\ Field(result, "No. of room")
               = Str(IF Len(FirstRow(parts)) >= 1 THEN FirstRow(parts)[1] ELSE "1")
        /\ Field(result, "Occupancy Adult")
               = Str(IF Len(FirstRow(parts)) >= 2 THEN FirstRow(parts)[2]
                     ELSE IF HasPage(parts, "4 Adults") THEN "4" ELSE "1")
        /\ Field(result, "Occupancy Childrent")
               = Str(IF HasPage(parts, "6 Child") THEN "6" ELSE "0")

\* C9 witness: a table row with two numerals was read in a document that also
\* has a "<N> Adult" token, the row's numeral kept
C9_Witness ==
    /\ phase = "done"
    /\ parts = << "Agoda Booking ID 7",
                  "Room Type No. of Rooms Occupancy\nDeluxe King 2 3", "4 Adults" >>
    /\ Field(result, "No. of room") = Str("2")
    /\ Field(result, "Occupancy Adult") = Str("3")
    /\ Field(result, "Occupancy Childrent") = Str("0")

\* C9 witness of the defaults: no table and no token
C9_Defaults ==
    /\ phase = "done"
    /\ parts = <<"Agoda Booking ID 7">>
    /\ Field(result, "No. of room") = Str("1")
    /\ Field(result, "Occupancy Adult") = Str("1")
    /\ Field(result, "Occupancy Childrent") = Str("0")

-----------------------------------------------------------------------------
(* Scenario: the window.  Files are chosen and cleared, a conversion is    *)
(* started, the worker thread takes the list item by item while the main   *)
(* thread keeps serving the buttons and the log queue.                     *)

MaxLog == 3

Files == {"expedia.pdf", "agoda.pdf", "scan.pdf"}

\* the text pdfplumber extracts from each file, page by page
PagesOf(f) ==
    CASE f = "expedia.pdf" -> <<"Expedia Reservation ID: 42", "Guest Email: a@b.co">>
      [] f = "agoda.pdf"   -> <<"Agoda Booking ID 7">>
      [] f = "scan.pdf"    -> <<"Hotel voucher">>

\* parser.process_pdf(filepath) for each file
Outcomes == [f \in Files |-> process_pdf(PagesOf(f))]

\* what the file dialog can return: one file, or two
Selections ==
    {<<f>> : f \in Files} \cup {p \in Files \X Files : p[1] # p[2]}

\* a line for the log; the clock prefix log_message adds is left out
Msg(kind, i, n, name) == [kind |-> kind, i |-> i, n |-> n, name |-> name]

EnableStart == Msg("ENABLE_START_BUTTON", 0, 0, "")

\* the messages the handlers of the window put so far, shown or not
Logged == Len(SelectSeq(log_text \o log_queue, LAMBDA m : m.kind \in {"added", "cleared", "start"}))

\* the for loop of select_files
RECURSIVE AddNew(_, _)
AddNew(list, filenames) ==
    IF filenames = <<>> THEN list
    ELSE AddNew(IF \E k \in 1..Len(list) : list[k] = Head(filenames) THEN list
                ELSE Append(list, Head(filenames)),
                Tail(filenames))

\* select_files, the dialog returning filenames
select_files(filenames) ==
    /\ Logged < MaxLog
    /\ file_list' = AddNew(file_list, filenames)
    /\ log_queue' = Append(log_queue, Msg("added", 0, Len(filenames), ""))
    /\ UNCHANGED <<text, parts, phase, fnVars, mapVars, pdfVars, btn_start, log_text, thread,
                   index, total_files, written>>

clear_list ==
    /\ Logged < MaxLog
    /\ file_list' = <<>>
    /\ log_queue' = Append(log_queue, Msg("cleared", 0, 0, ""))
    /\ UNCHANGED <<text, parts, phase, fnVars, mapVars, pdfVars, btn_start, log_text, thread,
                   index, total_files, written>>

\* a plausible slip: the Start button is not disabled
start_conversion_button_kept ==
    /\ Logged < MaxLog
    /\ btn_start = "normal"
    /\ file_list # <<>>
    /\ log_queue' = Append(log_queue, Msg("start", 0, Len(file_list), ""))
    /\ thread' = "started"
    /\ UNCHANGED <<text, parts, phase, fnVars, mapVars, pdfVars, file_list, btn_start, log_text,
                   index, total_files, written>>

\* start_conversion, reachable while the button is enabled; with an empty list
\* it warns and returns
start_conversion ==
    /\ Logged < MaxLog
    /\ btn_start = "normal"
    /\ file_list # <<>>
    /\ btn_start' = "disabled"
    /\ log_queue' = Append(log_queue, Msg("start", 0, Len(file_list), ""))
    /\ thread' = "started"
    /\ UNCHANGED <<text, parts, phase, fnVars, mapVars, pdfVars, file_list, log_text, index,
                   total_files, written>>

\* process_files_thread up to its for statement
ThreadBegin ==
    /\ thread = "started"
    /\ total_files' = Len(file_list)
    /\ index' = 0
    /\ thread' = "loop"
    /\ UNCHANGED <<text, parts, phase, fnVars, mapVars, pdfVars, file_list, btn_start,
                   log_queue, log_text, written>>

\* the messages of one pass of the for body for the outcome r of process_pdf, and
\* for a raise those of the except and finally blocks
PassLog(i, filepath, r) ==
    IF r.error # ""
    THEN << Msg("progress", i + 1, total_files, filepath), Msg("fatal", 0, 0, r.error),
            EnableStart >>
    ELSE << Msg("progress", i + 1, total_files, filepath),
            Msg("output", 0, 0, filepath \o "_extracted.txt"),
            Msg("output", 0, 0, filepath \o "_report.html") >>

\* one pass of the for body on filepath, r being what process_pdf did with it; an
\* exception leaves the loop for the except and finally blocks
Pass(filepath, r) ==
    /\ log_queue' = log_queue \o PassLog(index, filepath, r)
    /\ thread' = IF r.error # "" THEN "ended" ELSE "loop"
    /\ written' = IF r.error # "" THEN written ELSE written \cup {filepath}

\* the for loop taking the item the list holds at the iterator's position
ProcessFile ==
    /\ thread = "loop"
    /\ index < Len(file_list)
    /\ Pass(file_list[index + 1], Outcomes[file_list[index + 1]])
    /\ index' = index + 1
    /\ UNCHANGED <<text, parts, phase, fnVars, mapVars, pdfVars, file_list, btn_start,
                   log_text, total_files>>

\* the list is exhausted: the completion message, then the finally block
LoopEnd ==
    /\ thread = "loop"
    /\ index >= Len(file_list)
    /\ log_queue' = log_queue \o <<Msg("done", total_files, total_files, ""), EnableStart>>
    /\ thread' = "ended"
    /\ UNCHANGED <<text, parts, phase, fnVars, mapVars, pdfVars, file_list, btn_start,
                   log_text, index, total_files, written>>

\* check_log_queue finding the queue non-empty: it takes every message
check_log_queue ==
    /\ log_queue # <<>>
    /\ btn_start' = IF \E k \in 1..Len(log_queue) : log_queue[k] = EnableStart
                    THEN "normal" ELSE btn_start
    /\ log_text' = log_text \o SelectSeq(log_queue, LAMBDA m : m # EnableStart)
    /\ log_queue' = <<>>
    /\ UNCHANGED <<text, parts, phase, fnVars, mapVars, pdfVars, file_list, thread, index,
                   total_files, written>>

BatchInit ==
    /\ text = "" /\ parts = <<>> /\ phase = "window"
    /\ FnIdle /\ MapIdle /\ PdfIdle /\ AppIdle

BatchNext ==
    \/ \E filenames \in Selections : select_files(filenames)
    \/ clear_list
    \/ start_conversion
    \/ ThreadBegin
    \/ ProcessFile
    \/ LoopEnd
    \/ check_log_queue

SpecBatch == BatchInit /\ [][BatchNext]_vars

\* the log lines put so far, in the order they were put
Emitted == log_text \o SelectSeq(log_queue, LAMBDA m : m # EnableStart)

\* the list was neither extended nor cleared since the last start
SameListSinceStart ==
    \E k \in 1..Len(Emitted) :
        /\ Emitted[k].kind = "start"
        /\ \A j \in (k + 1)..Len(Emitted) : Emitted[j].kind \notin {"added", "cleared", "start"}

\* C6 as stated: an unrecognised document is fatal for that document only.  When
\* the worker has ended on the list it was started with, every recognisable file
\* of the list has its outputs, those after an unrecognised one included, and
\* the last line logged is the completion message.
C6_AsStated ==
    thread = "ended" /\ SameListSinceStart =>
        /\ \A k \in 1..Len(file_list) :
               Outcomes[file_list[k]].error = "" => file_list[k] \in written
        /\ Emitted[Len(Emitted)].kind = "done"

-----------------------------------------------------------------------------
(* Scenario: mdy_to_mmddyyyy on texts put together from long dates, words  *)
(* that are no date, blanks and trailing words.                            *)

LongDates == {"Nov 16, 2025", "November 16, 2025"}

MdyWords == LongDates \cup {"not-a-date", " ", "Foo 5, 2025", " Seattle"}

MdyInit ==
    /\ text = "" /\ parts = <<>> /\ phase = "compose"
    /\ FnIdle /\ MapIdle /\ PdfIdle /\ AppIdle

MdyType(w) ==
    /\ phase = "compose"
    /\ Len(parts) < MaxWords
    /\ parts' = Append(parts, w)
    /\ text' = text \o w
    /\ UNCHANGED <<fnVars, mapVars, pdfVars, appVars, phase>>

\* the str the call returned, or the class of the exception it raised
Kept1(v) ==
    /\ ret' = IF v.kind = "raise" THEN "" ELSE v.s
    /\ error' = IF v.kind = "raise" THEN v.s ELSE ""

MdyCall ==
    /\ phase = "compose"
    /\ Kept1(mdy_to_mmddyyyy(text))
    /\ phase' = "once"
    /\ UNCHANGED <<text, parts, ret2, mapVars, source, txt_file, html_file, appVars>>

MdyNext ==
    \/ \E w \in MdyWords : MdyType(w)
    \/ MdyCall

SpecMdy == MdyInit /\ [][MdyNext]_vars

\* C11 as stated: mdy_to_mmddyyyy never raises; it returns "MM/DD/YYYY" when the
\* text is "Mon DD, YYYY" with an abbreviated or full month name, and otherwise
\* the input unchanged, character for character, surrounding whitespace,
\* trailing text and unknown month words included.
C11_AsStated ==
    phase = "once" =>
        /\ error = ""
        /\ ret = IF text \in LongDates THEN "11/16/2025" ELSE text

-----------------------------------------------------------------------------
(* The text report of the documents of the Expedia scenario *)

TopFields == SelectSeq(FIELD_ORDER, LAMBDA k : k # "Billing Details:")

\* the lines the text report must hold for the record rec, each with its newline
ReportLines(rec) ==
    [i \in 1..Len(TopFields) |-> TopFields[i] \o ": " \o Field(rec, TopFields[i]).s \o "\n"]
    \o <<"\n", "--- Billing Details: ---\n">>
    \o [j \in 1..Len(BILLING_ORDER) |->
           "  " \o BILLING_ORDER[j] \o ": "
           \o Field(Field(rec, "Billing Details:"), BILLING_ORDER[j]).s \o "\n"]

\* C12: the text report of a normalised record is one "<FieldName>: <value>"
\* line per top-level field in schema order, Billing Details left out of them,
\* then an empty line and the line "--- Billing Details: ---", then one line
\* "  <SubfieldName>: <value>" per billing subfield in BILLING_ORDER; nothing
\* twice, nothing left out.
C12_TextReport ==
    phase = "done" /\ error = "" => txt_file = Join(ReportLines(result))

\* C12 witness: a record with a booking id and a billing value was written
C12_Witness ==
    /\ phase = "done"
    /\ parts = <<"Expedia Reservation ID: 42", "Expiration Date \"soon\" 'or' later",
                 "Guest: Cher">>
    /\ Field(result, "BookingID") = Str("42")
    /\ Field(Field(result, "Billing Details:"), "Expiration Date")
           = Str("\"soon\" 'or' later")
    /\ Len(txt_file) > Len("--- Billing Details: ---")

-----------------------------------------------------------------------------
(* Scenario: Expedia documents with the stay table's header, full rows, a  *)
(* row that lacks a date, in any order.                                    *)

StayHeader == "Check-In Check-Out Adults Kids/Ages (Expedia)"

StayPages ==
    { "Expedia Reservation ID: 42",
      StayHeader,
      "Nov 12, 2025 Nov 14, 2025 3 0",
      "Dec 1, 2025 Dec 3, 2025 2 1",
      "Nov 12, 2025 3 0" }

StayNext ==
    \/ \E p \in StayPages : AddPage(p)
    \/ ProcessPdf

SpecStay == PdfInit /\ [][StayNext]_vars

\* the four values a full row stands for
StayOf(p) ==
    CASE p = "Nov 12, 2025 Nov 14, 2025 3 0" -> <<"11/12/2025", "11/14/2025", "3", "0">>
      [] p = "Dec 1, 2025 Dec 3, 2025 2 1"   -> <<"12/01/2025", "12/03/2025", "2", "1">>
      [] OTHER                               -> <<>>

\* the full rows that stand after the first header of the document
RowsAfterHeader(ps) ==
    {i \in 1..Len(ps) : StayOf(ps[i]) # <<>> /\ \E h \in 1..(i - 1) : ps[h] = StayHeader}

StayKeys == <<"Check in", "Check out", "Occupancy Adult", "Occupancy Childrent">>

\* C13: in every record of ExpediaParser.parse, Check in, Check out, Occupancy
\* Adult and Occupancy Childrent all come from one row of the stay table (the
\* first full row after the header) or are all ""; never some set and others
\* empty.  The row "Nov 12, 2025 Nov 14, 2025 3 0" gives "11/12/2025",
\* "11/14/2025", "3", "0".
C13_StayRow ==
    phase = "done" /\ source = "Expedia" =>
        /\ error = ""
        /\ IF RowsAfterHeader(parts) = {}
           THEN \A k \in 1..4 : Field(result, StayKeys[k]) = Str("")
           ELSE \A k \in 1..4 :
                    Field(result, StayKeys[k])
                        = Str(StayOf(parts[Least(RowsAfterHeader(parts))])[k])

\* C13 witness: the header, a row lacking a date, then the full row
C13_Witness ==
    /\ phase = "done"
    /\ parts = <<StayHeader, "Nov 12, 2025 3 0", "Nov 12, 2025 Nov 14, 2025 3 0">>
    /\ Field(result, "Check in") = Str("11/12/2025")
    /\ Field(result, "Check out") = Str("11/14/2025")
    /\ Field(result, "Occupancy Adult") = Str("3")
    /\ Field(result, "Occupancy Childrent") = Str("0")

\* C13 witness of the other case: a full row with no header before it sets nothing
C13_NoHeader ==
    /\ phase = "done"
    /\ parts = <<"Nov 12, 2025 Nov 14, 2025 3 0", StayHeader>>
    /\ source = "Expedia"
    /\ Field(result, "Check in") = Str("")
    /\ Field(result, "Occupancy Adult") = Str("")

-----------------------------------------------------------------------------
(* Scenario: Expedia documents whose amount to charge stands with a        *)
(* currency after a colon, with a currency and no colon, or without a      *)
(* currency at several distances from the label.                           *)

Label == "Amount to Charge Expedia"

Colon   == "Amount to Charge Expedia: 1,234.50 USD"
NoColon == "Amount to Charge Expedia Group 250 VND"
Numerals == "500 and 1,234"
Dashes197 == "-----------------------------------------------------------------------------------------------------------------------------------------------------------------------------------------------------"

AmountPages == {Colon, NoColon, Label, Dashes197, Numerals}

AmountNext ==
    \/ \E p \in AmountPages : AddPage(p)
    \/ ProcessPdf

SpecAmount == PdfInit /\ [][AmountNext]_vars

\* where the first label of s ends, 0 without a label
LabelEnd(s) ==
    LET at == {i \in 1..(Len(s) - Len(Label) + 1) : SubSeq(s, i, i + Len(Label) - 1) = Label}
    IN  IF at = {} THEN 0 ELSE Least(at) + Len(Label) - 1

\* the AmountWindow characters of s after position e
WindowAfter(s, e) ==
    SubSeq(s, e + 1, IF e + AmountWindow <= Len(s) THEN e + AmountWindow ELSE Len(s))

\* the numerals of w: the maximal runs of digits and commas, as <<first, last>>
NumeralsOf(w) ==
    {r \in (1..Len(w)) \X (1..Len(w)) :
        /\ r[1] <= r[2]
        /\ \A k \in r[1]..r[2] : SubSeq(w, k, k) \in DigitSet \cup {","}
        /\ r[1] = 1 \/ SubSeq(w, r[1] - 1, r[1] - 1) \notin DigitSet \cup {","}
        /\ r[2] = Len(w) \/ SubSeq(w, r[2] + 1, r[2] + 1) \notin DigitSet \cup {","}}

\* the first run of runs in w, "" when there is none
FirstOf(runs, w) ==
    IF runs = {} THEN ""
    ELSE LET r == CHOOSE x \in runs : \A y \in runs : x[1] <= y[1]
         IN  SubSeq(w, r[1], r[2])

FirstNumeral(w) == FirstOf(NumeralsOf(w), w)

\* the first numeral of w that has a thousands separator
FirstSeparated(w) ==
    FirstOf({r \in NumeralsOf(w) : \E k \in r[1]..r[2] : SubSeq(w, k, k) = ","}, w)

\* the amount a document of AmountPages states: the colon form wherever it
\* stands, else the form without a colon, else what follows the first label
AmountStated(ps, s, bare) ==
    IF HasPage(ps, Colon) THEN "1,234.50 USD"
    ELSE IF HasPage(ps, NoColon) THEN "250 VND"
    ELSE IF LabelEnd(s) = 0 THEN ""
    ELSE bare

\* C14: find_expedia_amount returns "<amount> <currency>" from the first of its
\* three patterns, in their order, that matches anywhere in the text; only when
\* all three fail, the first numeral (digits, with or without thousands
\* separators) within the 200 characters after the first label, without a
\* currency; "" when there is no label or no numeral in the window, and the
\* field then keeps its default "".
C14_Amount ==
    phase = "done" /\ source = "Expedia" =>
        /\ error = ""
        /\ Field(result, "Amount to Charge Expedia")
               = Str(AmountStated(parts, text, FirstNumeral(WindowAfter(text, LabelEnd(text)))))

\* C14 as stated: the fallback returns the first numeral that contains
\* thousands separators.
C14_AsStated ==
    phase = "done" /\ source = "Expedia" =>
        Field(result, "Amount to Charge Expedia")
            = Str(AmountStated(parts, text, FirstSeparated(WindowAfter(text, LabelEnd(text)))))

\* C14 witness: the looser pattern stands first, the stricter one wins
C14_Witness ==
    /\ phase = "done"
    /\ parts = <<NoColon, Colon>>
    /\ Field(result, "Amount to Charge Expedia") = Str("1,234.50 USD")

\* C14 witness of the fallback: the numeral without a separator is the first
C14_Fallback ==
    /\ phase = "done"
    /\ parts = <<Numerals, Label, Numerals>>
    /\ Field(result, "Amount to Charge Expedia") = Str("500")

\* C14 witness of the window: the numeral starts at its last character
C14_WindowEdge ==
    /\ phase = "done"
    /\ parts = <<Label, Dashes197, Numerals>>
    /\ Field(result, "Amount to Charge Expedia") = Str("5")

\* C14 witness of the direction: a numeral before the label is not looked at
C14_BeforeLabel ==
    /\ phase = "done"
    /\ parts = <<Numerals, Label>>
    /\ Field(result, "Amount to Charge Expedia") = Str("")

-----------------------------------------------------------------------------
(* Scenario: Expedia documents whose Expiration Date line holds a month    *)
(* and a year, with or without a city after them, a full date, or a word.  *)

ExpiryPages ==
    { "Expedia Reservation ID: 42",
      "Expiration Date Sep 2030 Seattle",
      "Expiration Date Feb 2028",
      "Expiration Date Feb 2100",
      "Expiration Date Sep 30, 2030",
      "Expiration Date soon" }

ExpiryNext ==
    \/ \E p \in ExpiryPages : AddPage(p)
    \/ ProcessPdf

SpecExpiry == PdfInit /\ [][ExpiryNext]_vars

\* the value the Expiration Date line p stands for: the last day of a month
\* and year, the text after the label otherwise
ExpiryOf(p) ==
    CASE p = "Expiration Date Sep 2030 Seattle" -> "09/30/2030"
      [] p = "Expiration Date Feb 2028"         -> "02/29/2028"
      [] p = "Expiration Date Feb 2100"         -> "02/28/2100"
      [] p = "Expiration Date Sep 30, 2030"     -> "Sep 30, 2030"
      [] p = "Expiration Date soon"             -> "soon"
      [] OTHER                                  -> ""

\* the Expiration Date lines of the document that a newline ends
ExpiryLines(ps) == {i \in 1..(Len(ps) - 1) : ExpiryOf(ps[i]) # ""}

\* C15: the Expiration Date of an Expedia record is MM/DD/YYYY with the last
\* day of the month (29 for February 2028, 28 for February 2100, 30 for
\* September) when the captured text is a month name and a four-digit year,
\* tokens after them discarded; in every other case, a capture with a day
\* such as "Sep 30, 2030" included, it is the captured text verbatim.
C15_AsStated ==
    phase = "done" /\ source = "Expedia" /\ ExpiryLines(parts) # {} =>
        Field(Field(result, "Billing Details:"), "Expiration Date")
            = Str(ExpiryOf(parts[Least(ExpiryLines(parts))]))

\* the month-and-year cases of C15 behave as stated
C15_MonthYear ==
    /\ phase = "done"
    /\ parts = <<"Expiration Date Feb 2028", "Expiration Date Sep 2030 Seattle",
                 "Expedia Reservation ID: 42">>
    /\ Field(Field(result, "Billing Details:"), "Expiration Date") = Str("02/29/2028")

\* the capture with a day of C15: the day is read as the year
C15_DayAsYear ==
    /\ phase = "done"
    /\ parts = <<"Expiration Date Sep 30, 2030", "Expedia Reservation ID: 42">>
    /\ Field(Field(result, "Billing Details:"), "Expiration Date") = Str("09/30/30")

-----------------------------------------------------------------------------
(* Scenario: AgodaParser.parse on documents with a reference sell rate, a  *)
(* net rate, a cancellation notice with card details, an amount-to-charge  *)
(* label, in any order.                                                    *)

GrossPage == "Reference sell rate (incl. taxes & fees)\nVND 7,581,000.00"
NetPage   == "Net rate (incl. taxes & fees)\nVND 6,443,850.00"

AgodaTotalPages ==
    { "Agoda Booking ID 7",
      GrossPage,
      NetPage,
      "Cancellation Card Number 4111-1111 Validation Code 123",
      "Amount to Charge Expedia: 1,234.50 USD" }

\* the record r of AgodaParser.parse, or the exception, kept
Parsed(r) ==
    /\ result' = IF r.kind = "raise" THEN PyNone ELSE r
    /\ error' = IF r.kind = "raise" THEN r.s ELSE ""

\* AgodaParser(text).parse() on the document
AgodaCall ==
    /\ phase = "compose"
    /\ Parsed(AgodaParse(Chars(text)))
    /\ source' = "Agoda"
    /\ phase' = "done"
    /\ UNCHANGED <<text, parts, fnVars, data, result2, txt_file, html_file, appVars>>

AgodaTotalNext ==
    \/ \E p \in AgodaTotalPages : AddPage(p)
    \/ AgodaCall

SpecAgodaTotal == PdfInit /\ [][AgodaTotalNext]_vars

\* C16: AgodaParser.parse always gives Status booking Reservation "Confirmed",
\* Amount to Charge Expedia "" and the four Billing Details subfields "",
\* whatever the document holds (a cancellation notice, a card number, an
\* amount-to-charge label); Total Booking is the reference sell rate's amount
\* whenever the document has one, the net rate's only when it has none, and ""
\* when it has neither.
C16_AgodaFixed ==
    phase = "done" =>
        /\ error = ""
        /\ Field(result, "Status booking Reservation") = Str("Confirmed")
        /\ Field(result, "Amount to Charge Expedia") = Str("")
        /\ \A j \in 1..Len(BILLING_ORDER) :
               Field(Field(result, "Billing Details:"), BILLING_ORDER[j]) = Str("")
        /\ Field(result, "Total Booking")
               = Str(IF HasPage(parts, GrossPage) THEN "7,581,000 VND"
                     ELSE IF HasPage(parts, NetPage) THEN "6,443,850 VND"
                     ELSE "")

\* C16 witness: the net rate first, then the reference sell rate, among card
\* details and a cancellation notice
C16_Witness ==
    /\ phase = "done"
    /\ parts = <<NetPage, "Cancellation Card Number 4111-1111 Validation Code 123", GrossPage>>
    /\ Field(result, "Total Booking") = Str("7,581,000 VND")
    /\ Field(result, "Status booking Reservation") = Str("Confirmed")
    /\ Field(Field(result, "Billing Details:"), "Card Number") = Str("")

\* C16 witness of the fallback: the net rate alone, with an amount-to-charge label
C16_NetOnly ==
    /\ phase = "done"
    /\ parts = <<"Amount to Charge Expedia: 1,234.50 USD", NetPage>>
    /\ Field(result, "Total Booking") = Str("6,443,850 VND")
    /\ Field(result, "Amount to Charge Expedia") = Str("")

-----------------------------------------------------------------------------
(* The window with its scheduling: the worker thread, once started, keeps  *)
(* running, and the poller is called again every 100 ms.                   *)

SpecBatchFair ==
    /\ BatchInit
    /\ [][BatchNext]_vars
    /\ WF_vars(ThreadBegin \/ ProcessFile \/ LoopEnd)
    /\ WF_vars(check_log_queue)

\* the messages only the worker puts
FromWorker(m) == m.kind \in {"progress", "output", "fatal", "done"}

\* the control messages waiting in the queue
Enables == Len(SelectSeq(log_queue, LAMBDA m : m = EnableStart))

\* s is a prefix of t
IsPrefix(s, t) == Len(s) <= Len(t) /\ SubSeq(t, 1, Len(s)) = s

\* the runs started so far whose start line is shown
StartsShown == Len(SelectSeq(log_text, LAMBDA m : m.kind = "start"))

\* a worker is running exactly while the button is disabled and no control
\* message waits; an ended worker left one control message, after its lines,
\* until the poller took it; the control message is never shown
OneWorker ==
    /\ thread \in {"started", "loop"} => btn_start = "disabled" /\ Enables = 0
    /\ thread = "none" => btn_start = "normal" /\ Enables = 0
    /\ thread = "ended" =>
           \/ btn_start = "disabled" /\ Enables = 1
           \/ /\ btn_start = "normal" /\ Enables = 0
              /\ \A k \in 1..Len(log_queue) : ~FromWorker(log_queue[k])
    /\ \A k \in 1..Len(log_queue) :
           log_queue[k] = EnableStart =>
               \A j \in (k + 1)..Len(log_queue) : ~FromWorker(log_queue[j])
    /\ \A k \in 1..Len(log_text) : log_text[k] # EnableStart

\* what is shown only grows, and by the lines put, in the order they were put
ShownInOrder ==
    /\ IsPrefix(log_text, log_text')
    /\ IsPrefix(Emitted, Emitted')
    /\ IsPrefix(log_text', Emitted)

\* C17: at most one worker runs at a time, Start being disabled from the
\* moment a run begins; every run, completed or aborted by an exception, puts
\* ENABLE_START_BUTTON exactly once, after its log lines, and the poller
\* then re-enables Start; the lines are shown in the order they were put and
\* the control message is never shown as text.
C17_OneWorkerAtATime ==
    /\ []OneWorker
    /\ [][ShownInOrder]_vars
    /\ (thread = "started") ~> (thread = "ended" /\ btn_start = "normal")

\* C17 witness: a second run, both runs aborted by an exception, Start enabled again
C17_Witness ==
    /\ thread = "ended"
    /\ btn_start = "normal"
    /\ StartsShown = 2
    /\ Len(SelectSeq(log_text, LAMBDA m : m.kind = "fatal")) = 2

\* C17 witness of the other way a run ends: completed, Start enabled again
C17_Completed ==
    /\ thread = "ended"
    /\ btn_start = "normal"
    /\ \E k \in 1..Len(log_text) : log_text[k].kind = "done"

-----------------------------------------------------------------------------
(* The runs of the worker as the log tells them *)

\* where the last start line stands among the lines put, 0 before any start
LastStart ==
    LET at == {k \in 1..Len(Emitted) : Emitted[k].kind = "start"}
    IN  IF at = {} THEN 0 ELSE Greatest(at)

\* the lines of kind that the last run put
RunLines(kind) ==
    SelectSeq(SubSeq(Emitted, LastStart + 1, Len(Emitted)), LAMBDA m : m.kind = kind)

\* C18 as stated: a run processes exactly the files the list held when Start
\* was pressed, each once and in order, and the counts of its progress and
\* completion lines are the number of files it processed, whatever
\* select_files and clear_list do meanwhile.  For a run that ended without an
\* exception: as many progress lines as the list held at Start, numbered 1, 2,
\* ... of that many, for files all different, and a completion line with that
\* number.
C18_AsStated ==
    thread = "ended" /\ RunLines("fatal") = <<>> =>
        /\ Len(RunLines("progress")) = Emitted[LastStart].n
        /\ \A j \in 1..Len(RunLines("progress")) :
               /\ RunLines("progress")[j].i = j
               /\ RunLines("progress")[j].n = Emitted[LastStart].n
               /\ \A h \in 1..(j - 1) :
                      RunLines("progress")[h].name # RunLines("progress")[j].name
        /\ RunLines("done") = <<Msg("done", Emitted[LastStart].n, Emitted[LastStart].n, "")>>

\* the list cleared during a run of two files: one file processed, "2/2" reported
C18_ClearedMidRun ==
    /\ thread = "ended"
    /\ file_list = <<>>
    /\ Len(RunLines("progress")) = 1
    /\ RunLines("done") = <<Msg("done", 2, 2, "")>>

\* files added during a run of one file: a progress line "(2/1)"
C18_AddedMidRun ==
    /\ thread = "ended"
    /\ \E j \in 1..Len(RunLines("progress")) :
           RunLines("progress")[j].i = 2 /\ RunLines("progress")[j].n = 1

====
